---------------------------- MODULE Spec2Model ----------------------------
(***************************************************************************)
(* Adaptive rendering pipeline of the music visualizer: the performance    *)
(* monitor's quality-adjustment policy, the LOD manager it drives, and the *)
(* object pool.                                                            *)
(*                                                                         *)
(* Time is performance.now() in whole milliseconds.  Real-valued metrics   *)
(* are kept exactly: frameBudgetUsage in thousandths, gcTime as a pair     *)
(* <<n, k>> standing for n * 0.9^k, FPS statistics as sums over the        *)
(* rolling window compared by cross-multiplication.                        *)
(***************************************************************************)
EXTENDS Integers, Sequences, FiniteSets, TLC

VARIABLES
  \* ---- PerformanceMonitor ----
  now,                  \* performance.now()
  inFrame,              \* beginFrame() called, endFrame() pending
  frameStartTime,
  lastFrameTime,
  frameCount,
  fps,                  \* metrics.fps
  minFps,               \* metrics.minFps, Unsampled for Infinity
  maxFps,               \* metrics.maxFps
  fpsHistory,
  frameTime,            \* metrics.frameTime
  frameBudgetUsage,     \* metrics.frameBudgetUsage, in thousandths
  hasFrameDrops,
  isPerformanceCritical,
  isMemoryConstrained,
  gcTime,               \* metrics.gcTime as <<n, k>> = n * 0.9^k
  currentQualityLevel,
  targetQualityLevel,
  lastAdjustmentTime,
  \* ---- LodManager ----
  lodLevel,             \* LodManager.currentLevel
  adaptiveDistance,
  \* ---- observations of the last operation ----
  qualityCalls,         \* arguments the quality-change callback received
  lodCalls,             \* levels the LOD-change callback received
  rendererApplied,      \* levels applyRendererSettings was called with
  lastOp,               \* name of the last operation
  evaluated,            \* the last operation ran the policy's rule list
  ruleMatched,          \* the priority rule that matched in it, "none" if none
  gcMatched,            \* the GC rule matched in it
  evalTime,             \* time of the latest rule-list evaluation, -1 if none
  changeTime,           \* time of the latest change of the target by the policy, -1 if none
  pressureEvents,       \* 'memory-pressure' events the last operation dispatched
  lodEvents,            \* level payloads of the 'lod-memory-optimization' events it dispatched
  postRuns,             \* PostProcessingManager.handleMemoryPressure calls it made
  \* ---- Pool ----
  pool,                 \* the free list
  inUse,
  maxSize,
  minSize,
  creationCount,
  usageHistory,
  poolHits,
  poolMisses,
  maxUsageCount,
  lastAdaptiveCheck,
  timers,               \* pending createBatch timers of prewarm: [created, toCreate]
  \* ---- observations of the last pool operation ----
  resetCalls,           \* the objects resetFn was called on
  resized,              \* what checkAdaptiveSize did: "none", "trim", "grow";
                        \* "pressure" after handleMemoryPressure
  usageBudget,          \* what of the explored schedule is left
  pairStage,            \* progress of a get-release or getBatch-releaseBatch-getBatch sequence
  pairBatch,            \* the objects of that sequence, in the order returned
  \* ---- LodManager.shouldUpdate ----
  frameCounter,
  lodReturned,          \* what the latest shouldUpdate() call was given and returned
  lodSerial,            \* LodManagers constructed; the latest is the one in use
  \* ---- BaseVisualization / WaveformVisualizer: the latest instance ----
  styleId,              \* its serial, 0 before the first
  styleStage,           \* "none", "constructed", "initialized", "disposed"
  styleLodManager,      \* serial of the LodManager it holds, 0 for null
  styleFrameCount,      \* its frameCount
  qualityScale,         \* in hundredths
  shaderComplexity,     \* "low", "medium", "high"
  uniforms,             \* time, beat, volume, qualityScale
  updateFrequency,
  isVisible,
  distanceToCamera,
  clockElapsed,         \* clock.getElapsedTime() at its latest reading
  lastCleanupTime,
  sceneChildren,        \* children of the shared scene
  objects,
  materials,
  geometries,
  textureCache,
  materialCache,        \* <<key, material>> entries
  geometryCache,
  objectPools,          \* keys of the pool map
  ripples,
  rippleGroup,          \* the ripple group exists
  created,              \* every geometry and material it created
  gpuDisposed,          \* those of them dispose() has been called on
  lastUpdate,           \* its latest update(): the frequency gate and whether updateVisualization ran
  \* ---- the document and the instances ----
  listeners,            \* 'memory-pressure' listeners of style instances
  handlerRuns,          \* instances whose handleMemoryPressure the latest event invoked
  liveStyles,           \* instances constructed and not disposed
  \* ---- VisualizationManager ----
  vmRenderer,           \* renderer and camera are set
  vmMonitor,            \* serial of performanceMonitor, 0 for null
  vmLodManager,         \* serial of lodManager, 0 for null
  vmPostProcessing,     \* postProcessing is set
  postEnabled,          \* what postProcessing.setEnabled was last given
  visualizationType,
  pendingType,          \* the argument of the setVisualizationType call under way
  activeType,           \* the type of the style instance constructed last
  currentVisualization, \* serial of the active style, 0 for null
  vmOp,                 \* the manager call under way, or the latest
  vmTodo,               \* its steps still to run
  vmDone,               \* its steps that have returned
  levelAtBegin,         \* the LOD level at its beginFrame()
  \* ---- PerformanceMonitor sections ----
  timingMarkers,        \* section -> performance.now() at its latest beginSection, -1 for none
  sectionTimes,         \* section -> its rolling history of durations
  sectionMetrics,       \* the metric field of each section that has one
  sectionWarned,        \* the latest endSection took the warning return
  sectionBegun,         \* section -> beginSection was called since its latest endSection
  \* ---- LodManager.getParticleCount ----
  particleQuery,        \* what the latest call was given and returned
  postProcessingConfig, \* the manager's postProcessingConfig
  defaultPostProcessingConfig, \* the module-level object of that name
  configShared,         \* the manager's field still refers to that object
  requestedConfig,      \* the defaults overlaid with what setPostProcessingConfig was given
  \* ---- PostProcessingManager ----
  postListeners         \* 'memory-pressure' listeners post-processing managers registered

monVars == <<now, inFrame, frameStartTime, lastFrameTime, frameCount, fps, minFps, maxFps,
             fpsHistory, frameTime, frameBudgetUsage, hasFrameDrops,
             isPerformanceCritical, isMemoryConstrained, gcTime,
             currentQualityLevel, targetQualityLevel, lastAdjustmentTime>>
frameVars == <<now, inFrame, frameStartTime, lastFrameTime, frameCount, fps, minFps, maxFps,
               fpsHistory, frameTime, frameBudgetUsage, hasFrameDrops,
               isPerformanceCritical, isMemoryConstrained, gcTime>>
lodVars == <<lodLevel, adaptiveDistance>>
obsVars == <<qualityCalls, lodCalls, rendererApplied, lastOp, evaluated,
             ruleMatched, gcMatched, evalTime, changeTime, pressureEvents, lodEvents,
             postRuns>>
poolVars == <<pool, inUse, maxSize, minSize, creationCount, usageHistory,
              poolHits, poolMisses, maxUsageCount, lastAdaptiveCheck, timers>>
poolObsVars == <<resetCalls, resized, usageBudget, pairStage, pairBatch>>
\* everything of the monitor and the LOD manager but the clock
rendIdleVars == <<inFrame, frameStartTime, lastFrameTime, frameCount, fps, minFps, maxFps,
                  fpsHistory, frameTime, frameBudgetUsage, hasFrameDrops,
                  isPerformanceCritical, isMemoryConstrained, gcTime,
                  currentQualityLevel, targetQualityLevel, lastAdjustmentTime,
                  lodVars, obsVars>>
rendVars == <<monVars, lodVars, obsVars>>
styleVars == <<frameCounter, lodReturned, lodSerial, styleId, styleStage, styleLodManager,
               styleFrameCount, qualityScale, shaderComplexity, uniforms, updateFrequency, isVisible,
               distanceToCamera, clockElapsed, lastCleanupTime, sceneChildren, objects,
               materials, geometries, textureCache, materialCache, geometryCache,
               objectPools, ripples, rippleGroup, created, gpuDisposed, lastUpdate,
               listeners, handlerRuns, liveStyles>>
vmVars == <<vmRenderer, vmMonitor, vmLodManager, vmPostProcessing, postEnabled,
            visualizationType, pendingType, activeType, currentVisualization, vmOp, vmTodo, vmDone,
            levelAtBegin>>
sectionVars == <<timingMarkers, sectionTimes, sectionMetrics, sectionWarned, sectionBegun>>
\* the manager and what only the specifications of single classes drive
configVars == <<postProcessingConfig, defaultPostProcessingConfig, configShared,
                requestedConfig>>
classVars == <<sectionVars, particleQuery, postListeners, configVars>>
appVars == <<vmVars, classVars>>
vars == <<monVars, lodVars, obsVars, poolVars, poolObsVars, styleVars, appVars>>

Min(a, b) == IF a < b THEN a ELSE b
Max(a, b) == IF a > b THEN a ELSE b

RECURSIVE SumSeq(_)
SumSeq(s) == IF s = <<>> THEN 0 ELSE Head(s) + SumSeq(Tail(s))

RECURSIVE SumSq(_)
SumSq(s) == IF s = <<>> THEN 0 ELSE Head(s) * Head(s) + SumSq(Tail(s))

RECURSIVE Pow(_, _)
Pow(b, e) == IF e = 0 THEN 1 ELSE b * Pow(b, e - 1)

(***************************************************************************)
(* Settings and fixed numbers of the program.                              *)
(***************************************************************************)
TargetFps == 60
CriticalFps == 30
QualityLevels == 5
NumLodLevels == 5
HistorySize == 60
WarmupFrames == 100
GcDetectionThreshold == 50
GcQualityThreshold == 30
DefaultFps == 60
DefaultAdaptiveDistance == 50
PressureAdaptiveDistance == 30

(***************************************************************************)
(* Bounds of the model.                                                    *)
(***************************************************************************)
AdjustmentPeriod == 40  \* settings.adjustmentPeriod as passed to the constructor
MaxTime == 80           \* the clock stops advancing here
MaxFrames == 102        \* endFrame() calls explored
QuietFrames == 97       \* the first frames run back to back, with nothing else called
ArgSlack == 1           \* setQualityLevel arguments range ArgSlack beyond the table

FrameDurations == {0, 20}    \* ms between beginFrame() and endFrame()
FrameGaps == {0, 40}         \* ms between endFrame() and the next beginFrame()
LevelArgs == (0 - ArgSlack) .. (QualityLevels - 1 + ArgSlack)
DeviceGuesses == {0, 1, 2, 3}


(***************************************************************************)
(* PerformanceMonitor: derived statistics of the rolling FPS window.       *)
(***************************************************************************)
\* history.push(x); if (history.length > historySize) history.shift()
PushHistory(h, x) ==
  LET h2 == Append(h, x) IN IF Len(h2) > HistorySize THEN Tail(h2) ELSE h2

\* metrics.averageFps < x, averageFps = fpsSum / fpsHistory.length
AverageFpsBelow(h, x) == SumSeq(h) < x * Len(h)

\* metrics.averageFps > targetFps * 1.1
AverageFpsAboveTarget(h) == 10 * SumSeq(h) > 11 * TargetFps * Len(h)

\* metrics.averageFps < targetFps * 0.9
AverageFpsBelowTarget(h) == 10 * SumSeq(h) < 9 * TargetFps * Len(h)

\* variance / average^2 of the window, times 100, against q^2:
\* stdDev / average > q / 10
DeviationAbove(h, q) ==
  (Len(h) * SumSq(h) - SumSeq(h) * SumSeq(h)) * 100 > q * q * SumSeq(h) * SumSeq(h)

DeviationBelow(h, q) ==
  (Len(h) * SumSq(h) - SumSeq(h) * SumSeq(h)) * 100 < q * q * SumSeq(h) * SumSeq(h)

\* metrics.fpsStability < p / 10.  fpsStability = max(0, 1 - stdDev / average)
\* is recomputed only when the window holds more than 5 samples, and is 1.0
\* until then.
FpsStabilityBelow(h, p) == IF Len(h) > 5 THEN DeviationAbove(h, 10 - p) ELSE FALSE

\* metrics.fpsStability > p / 10
FpsStabilityAbove(h, p) == IF Len(h) > 5 THEN DeviationBelow(h, 10 - p) ELSE TRUE

\* gcTime > 30 for gcTime = n * 0.9^k
GcAbove(g, x) == g[1] * Pow(9, g[2]) > x * Pow(10, g[2])

\* this.metrics.gcTime *= 0.9.  The only reader compares gcTime with 30, so
\* the exponent is not advanced once the value is at or below that.
GcDecay(g) == IF GcAbove(g, GcQualityThreshold) THEN <<g[1], g[2] + 1>> ELSE g

\* Detect potential GC pauses
GcUpdate(g, lastT, t) ==
  IF lastT > 0 /\ t - lastT > GcDetectionThreshold THEN <<t - lastT, 0>> ELSE GcDecay(g)

\* the sample without its default
CurrentFpsMeasured(f) == f

\* const currentFps = this.metrics.fps || 60
CurrentFps(f) == IF f # 0 THEN f ELSE DefaultFps

\* minFps: Infinity, until the first sample
Unsampled == -1

\* Math.min(this.metrics.minFps, currentFps)
MinFps(m, f) == IF m = Unsampled THEN f ELSE Min(m, f)

\* metrics.averageFps = x
AverageFpsIs(h, x) == SumSeq(h) = x * Len(h)

\* metrics.fpsStability = 1: no deviation in a window of more than 5 samples,
\* and the initial 1.0 until then
FpsStabilityIsOne(h) == IF Len(h) > 5 THEN Len(h) * SumSq(h) = SumSeq(h) * SumSeq(h) ELSE TRUE

\* frameTime / targetFrameTime without the clamp
BudgetUsageUnclamped(ft) == ft * TargetFps

\* Math.min(1, frameTime / targetFrameTime), in thousandths
BudgetUsage(ft) == Min(1000, ft * TargetFps)

\* frameTime > targetFrameTime * 1.2
FrameDrops(ft) == ft * TargetFps > 1200

\* averageFps < criticalFps || frameBudgetUsage > 0.95
PerformanceCritical(h, usage) == AverageFpsBelow(h, CriticalFps) \/ usage > 950

(***************************************************************************)
(* PerformanceMonitor.checkQualityAdjustment                               *)
(***************************************************************************)
\* Lower without the floor at 0.
LowerUnfloored(level) == level - 1

\* Math.max(0, targetLevel - 1)
Lower(level) == Max(0, level - 1)

\* The priority-ordered rules.  m is the metrics record after the frame
\* update; the result is <<targetLevel, needsAdjustment, rule that matched>>.
PriorityRules(m) ==
  IF m.memoryConstrained THEN <<Lower(m.current), TRUE, "memory">>
  ELSE IF m.critical THEN <<Lower(m.current), TRUE, "critical">>
  ELSE IF m.usage > 900 /\ FpsStabilityBelow(m.history, 7)
    THEN <<Lower(m.current), TRUE, "budget">>
  ELSE IF /\ AverageFpsAboveTarget(m.history)
          /\ FpsStabilityAbove(m.history, 8)
          /\ m.usage < 700
    THEN IF m.current < QualityLevels - 1
           THEN <<m.current + 1, TRUE, "increase">>
           ELSE <<m.current, FALSE, "increase">>
  ELSE IF AverageFpsBelowTarget(m.history) \/ FpsStabilityBelow(m.history, 6)
    THEN <<Lower(m.current), TRUE, "belowTarget">>
  ELSE <<m.current, FALSE, "none">>

\* The GC rule lowering from the level the evaluation started at.
GcRuleFromCurrent(m, r) ==
  IF GcAbove(m.gc, GcQualityThreshold) THEN <<Lower(m.current), TRUE, r[3]>> ELSE r

\* Special case: frequent GC pauses
GcRule(m, r) ==
  IF GcAbove(m.gc, GcQualityThreshold) THEN <<Lower(r[1]), TRUE, r[3]>> ELSE r

\* PolicyRuns without the adjustment-period check.
PolicyRunsAnyTime(t, lastAdj, fc) == ~(fc < WarmupFrames)

\* now - lastAdjustmentTime < adjustmentPeriod, or frameCount < 100: return
PolicyRuns(t, lastAdj, fc) ==
  /\ ~(t - lastAdj < AdjustmentPeriod)
  /\ ~(fc < WarmupFrames)

\* TargetChanges without the comparison with the present target.
TargetChangesAlways(r, target) == r[2]

\* needsAdjustment && targetLevel !== this.metrics.targetQualityLevel
TargetChanges(r, target) == r[2] /\ r[1] # target

(***************************************************************************)
(* LodManager.setQualityLevel                                              *)
(***************************************************************************)
\* Math.max(0, Math.min(levels.length - 1, level))
ClampLod(n) == Max(0, Min(NumLodLevels - 1, n))

\* Math.max(0, Math.min(qualityLevels - 1, level))
ClampQuality(n) == Max(0, Min(QualityLevels - 1, n))

\* LodChanges without the early return.
LodChangesAlways(level, n) == TRUE

\* if (newLevel === this.currentLevel) return
LodChanges(level, n) == ClampLod(n) # level

\* The LodManager's fields and callbacks after setQualityLevel(n).
LodSet(n) ==
  IF LodChanges(lodLevel, n)
    THEN /\ lodLevel' = ClampLod(n)
         /\ rendererApplied' = <<ClampLod(n)>>
         /\ lodCalls' = <<ClampLod(n)>>
    ELSE /\ lodLevel' = lodLevel
         /\ rendererApplied' = <<>>
         /\ lodCalls' = <<>>

\* The quality-change callback installed by setupPerformanceCallback:
\* (qualityLevel) => this.setQualityLevel(qualityLevel)
OnQualityChange(calls) ==
  /\ qualityCalls' = calls
  /\ IF calls = <<>>
       THEN lodLevel' = lodLevel /\ rendererApplied' = <<>> /\ lodCalls' = <<>>
       ELSE LodSet(calls[1])

(***************************************************************************)
(* Pool: the object pool.  An object is a positive integer, the number of  *)
(* the createFn call that made it; 0 is an object no pool call made.       *)
(***************************************************************************)
BatchSize == 10             \* objects one createBatch run of prewarm makes
UsageHistoryLimit == 100    \* usages recordUsage keeps
AdaptiveMinHistory == 50    \* usages checkAdaptiveSize needs
AdaptiveCheckPeriod == 5000 \* ms between adaptive checks of releaseBatch

QuietUsages == 49           \* get() calls that warm a pool up
QuietHeld == 3              \* objects kept in use while warming up
WarmUsages == 2             \* get()/getBatch() calls explored on a warmed-up pool
FreeUsages == 3             \* get()/getBatch() calls explored on a fresh pool
WarmCalls == 6              \* pool calls explored on a warmed-up pool
MaxCreated == 3             \* createFn calls explored on a fresh pool
MaxCreatedWarm == 5         \* createFn calls explored on a warmed-up pool
ChunkedSize == 12           \* initialSize of the pool that prewarm fills in two runs
ChunkedUsages == 2          \* get()/getBatch() calls explored on that pool
ChunkedCalls == 4           \* pool calls explored on that pool
MaxBatch == 2               \* largest getBatch count and releaseBatch length
MaxPrewarm == 2             \* largest prewarm count
MaxTrim == 1                \* largest trim argument
PoolMaxTime == 5001         \* the clock stops advancing here

BatchCounts == 1 .. MaxBatch
PrewarmCounts == 1 .. MaxPrewarm
TrimSizes == 0 .. MaxTrim
ClockSteps == {0, AdaptiveCheckPeriod + 1}

ObjectsOf(s) == {s[i] : i \in 1 .. Len(s)}

\* the objects of k createFn calls after cc earlier ones
NewObjects(cc, k) == [i \in 1 .. k |-> cc + i]

\* every sequence of at most k objects out of S
BatchesOf(S, k) == UNION {[1 .. n -> S] : n \in 0 .. k}

\* Math.max(...s) of a non-empty s
MaxOf(s) == CHOOSE m \in ObjectsOf(s) : \A i \in 1 .. Len(s) : s[i] <= m

\* size(), available(), inUseCount()
PoolSize == Len(pool) + Cardinality(inUse)
Available == Len(pool)
InUseCount == Cardinality(inUse)

\* recordUsage
RecordUsage(h, n) ==
  LET a == Append(h, n)
  IN IF Len(a) > UsageHistoryLimit THEN Tail(a) ELSE a

\* pool.pop() k times: what stays, and what comes out in that order
PoppedKept(p, k) == p
Popped(p, k) == SubSeq(p, 1, Len(p) - k)
PopOrder(p, k) == [i \in 1 .. k |-> p[Len(p) - i + 1]]

\* inUse.delete(o)
ReleasedKept(iu, o) == iu
Released(iu, o) == iu \ {o}

\* the capacity test of release and releaseBatch
AtCapacityAlways(p, mx) == TRUE
AtCapacity(p, mx) == mx > 0 /\ Len(p) >= mx

\* prewarm(count) up to its first setTimeout
PrewarmPool(p, cc, tm, count) ==
  LET toCreate == Max(0, count - Len(p))
      batchEnd == Min(BatchSize, toCreate)
  IN IF toCreate <= 0
       THEN [pool |-> p, creationCount |-> cc, timers |-> tm]
       ELSE [pool |-> p \o NewObjects(cc, batchEnd),
             creationCount |-> cc + batchEnd,
             timers |-> IF batchEnd < toCreate
                          THEN Append(tm, [created |-> batchEnd, toCreate |-> toCreate])
                          ELSE tm]

\* trim(k): splice(0, removeCount)
TrimPool(p, k) == IF Len(p) <= k THEN p ELSE SubSeq(p, Len(p) - k + 1, Len(p))

\* Math.max(minSize, Math.ceil(maxUsage * 1.2))
IdealPoolSize(h, mn) == Max(mn, (12 * MaxOf(h) + 9) \div 10)

\* checkAdaptiveSize
CheckAdaptiveSize(p, iu, cc, tm, h, mx, mn) ==
  IF Len(h) < AdaptiveMinHistory
    THEN [pool |-> p, creationCount |-> cc, timers |-> tm, resized |-> "none"]
    ELSE LET ideal == IdealPoolSize(h, mn)
         IN IF 2 * Len(p) > 3 * ideal
              THEN [pool |-> TrimPool(p, ideal), creationCount |-> cc,
                    timers |-> tm, resized |-> "trim"]
              ELSE IF Len(p) < ideal /\ (mx = 0 \/ Len(p) + Cardinality(iu) < mx)
                     THEN LET w == PrewarmPool(p, cc, tm, ideal - Len(p))
                          IN [pool |-> w.pool, creationCount |-> w.creationCount,
                              timers |-> w.timers, resized |-> "grow"]
                     ELSE [pool |-> p, creationCount |-> cc, timers |-> tm,
                           resized |-> "none"]

\* the loop of releaseBatch over the objects still to release
RECURSIVE ReleaseAll(_, _, _)
ReleaseAll(objs, st, mx) ==
  IF objs = <<>> THEN st
  ELSE LET o == Head(objs)
       IN IF o \notin st.inUse
            THEN ReleaseAll(Tail(objs), st, mx)
            ELSE ReleaseAll(Tail(objs),
                   [pool |-> IF AtCapacity(st.pool, mx) THEN st.pool ELSE Append(st.pool, o),
                    inUse |-> Released(st.inUse, o),
                    reset |-> Append(st.reset, o)],
                   mx)

\* what an operation lets be observed
Observe(rst, rz) == resetCalls' = rst /\ resized' = rz

NoPair == pairStage' = "none" /\ pairBatch' = <<>>

\* new Pool(createFn, resetFn, initialSize, mx, mn)
InitPool(initialSize, mx, mn, budget) ==
  LET w == IF initialSize > 0 THEN PrewarmPool(<<>>, 0, <<>>, initialSize)
                              ELSE [pool |-> <<>>, creationCount |-> 0, timers |-> <<>>]
  IN /\ pool = w.pool
     /\ inUse = {}
     /\ maxSize = mx
     /\ minSize = mn
     /\ creationCount = w.creationCount
     /\ usageHistory = <<>>
     /\ poolHits = 0
     /\ poolMisses = 0
     /\ maxUsageCount = 0
     /\ lastAdaptiveCheck = 0
     /\ timers = w.timers
     /\ resetCalls = <<>>
     /\ resized = "none"
     /\ usageBudget = budget
     /\ pairStage = "none"
     /\ pairBatch = <<>>

(***************************************************************************)
(* Pool.get                                                                *)
(***************************************************************************)
PoolGet ==
  LET hit == Len(pool) > 0
      obj == IF hit THEN pool[Len(pool)] ELSE creationCount + 1
      iu == inUse \cup {obj}
  IN /\ usageHistory' = RecordUsage(usageHistory, Cardinality(inUse))
     /\ pool' = IF hit THEN Popped(pool, 1) ELSE pool
     /\ poolHits' = IF hit THEN poolHits + 1 ELSE poolHits
     /\ poolMisses' = IF hit THEN poolMisses ELSE poolMisses + 1
     /\ creationCount' = IF hit THEN creationCount ELSE creationCount + 1
     /\ inUse' = iu
     /\ maxUsageCount' = Max(maxUsageCount, Cardinality(iu))
     /\ Observe(<<>>, "none")
     /\ pairStage' = IF inUse = {} THEN "get" ELSE "none"
     /\ pairBatch' = IF inUse = {} THEN <<obj>> ELSE <<>>
     /\ UNCHANGED <<maxSize, minSize, lastAdaptiveCheck, timers, now, rendIdleVars, styleVars, appVars>>

(***************************************************************************)
(* Pool.release(o)                                                         *)
(***************************************************************************)
PoolRelease(o) ==
  /\ IF o \notin inUse
       THEN /\ UNCHANGED <<pool, inUse, creationCount, timers>>
            /\ Observe(<<>>, "none")
       ELSE IF AtCapacity(pool, maxSize)
         THEN /\ inUse' = Released(inUse, o)
              /\ UNCHANGED <<pool, creationCount, timers>>
              /\ Observe(<<o>>, "none")
         ELSE LET a == CheckAdaptiveSize(Append(pool, o), Released(inUse, o),
                                         creationCount, timers, usageHistory,
                                         maxSize, minSize)
              IN /\ inUse' = Released(inUse, o)
                 /\ pool' = a.pool
                 /\ creationCount' = a.creationCount
                 /\ timers' = a.timers
                 /\ Observe(<<o>>, a.resized)
  /\ pairStage' = IF pairStage = "get" /\ pairBatch = <<o>> THEN "getRelease" ELSE "none"
  /\ pairBatch' = IF pairStage = "get" /\ pairBatch = <<o>> THEN pairBatch ELSE <<>>
  /\ UNCHANGED <<maxSize, minSize, usageHistory, poolHits, poolMisses,
                 maxUsageCount, lastAdaptiveCheck, now, rendIdleVars, styleVars, appVars>>

(***************************************************************************)
(* Pool.getBatch(count)                                                    *)
(***************************************************************************)
PoolGetBatch(count) ==
  LET fromPool == Min(count, Len(pool))
      toCreate == count - fromPool
      result == PopOrder(pool, fromPool) \o NewObjects(creationCount, toCreate)
      iu == inUse \cup ObjectsOf(result)
      follows == pairStage = "batchReleased" /\ Len(pairBatch) = count
      empty == pool = <<>> /\ inUse = {}
  IN /\ usageHistory' = RecordUsage(usageHistory, Cardinality(inUse))
     /\ pool' = Popped(pool, fromPool)
     /\ poolHits' = poolHits + fromPool
     /\ poolMisses' = poolMisses + toCreate
     /\ creationCount' = creationCount + toCreate
     /\ inUse' = iu
     /\ maxUsageCount' = Max(maxUsageCount, Cardinality(iu))
     /\ Observe(<<>>, "none")
     /\ pairStage' = IF follows THEN "batchAgain" ELSE IF empty THEN "batch" ELSE "none"
     /\ pairBatch' = IF follows THEN pairBatch ELSE IF empty THEN result ELSE <<>>
     /\ UNCHANGED <<maxSize, minSize, lastAdaptiveCheck, timers, now, rendIdleVars, styleVars, appVars>>

(***************************************************************************)
(* Pool.releaseBatch(objs), d ms after the previous pool call.             *)
(***************************************************************************)
PoolReleaseBatch(objs, d) ==
  /\ now' = now + d
  /\ IF objs = <<>>
       THEN /\ UNCHANGED <<pool, inUse, creationCount, timers, lastAdaptiveCheck>>
            /\ Observe(<<>>, "none")
       ELSE LET st == ReleaseAll(objs, [pool |-> pool, inUse |-> inUse, reset |-> <<>>],
                                 maxSize)
                due == (now + d) - lastAdaptiveCheck > AdaptiveCheckPeriod
                a == IF due
                       THEN CheckAdaptiveSize(st.pool, st.inUse, creationCount, timers,
                                              usageHistory, maxSize, minSize)
                       ELSE [pool |-> st.pool, creationCount |-> creationCount,
                             timers |-> timers, resized |-> "none"]
            IN /\ pool' = a.pool
               /\ inUse' = st.inUse
               /\ creationCount' = a.creationCount
               /\ timers' = a.timers
               /\ lastAdaptiveCheck' = IF due THEN now + d ELSE lastAdaptiveCheck
               /\ Observe(st.reset, a.resized)
  /\ pairStage' = IF pairStage = "batch" /\ pairBatch = objs THEN "batchReleased" ELSE "none"
  /\ pairBatch' = IF pairStage = "batch" /\ pairBatch = objs THEN pairBatch ELSE <<>>
  /\ UNCHANGED <<maxSize, minSize, usageHistory, poolHits, poolMisses,
                 maxUsageCount, rendIdleVars, styleVars, appVars>>

(***************************************************************************)
(* Pool.prewarm(count)                                                     *)
(***************************************************************************)
PoolPrewarm(count) ==
  LET w == PrewarmPool(pool, creationCount, timers, count)
  IN /\ pool' = w.pool
     /\ creationCount' = w.creationCount
     /\ timers' = w.timers
     /\ Observe(<<>>, "none")
     /\ NoPair
     /\ UNCHANGED <<inUse, maxSize, minSize, usageHistory, poolHits, poolMisses,
                    maxUsageCount, lastAdaptiveCheck, now, rendIdleVars, styleVars, appVars>>

(***************************************************************************)
(* createBatch run by a timer of prewarm                                   *)
(***************************************************************************)
PoolCreateBatch ==
  /\ timers # <<>>
  /\ LET t == Head(timers)
         batchEnd == Min(t.created + BatchSize, t.toCreate)
         made == batchEnd - t.created
     IN /\ pool' = pool \o NewObjects(creationCount, made)
        /\ creationCount' = creationCount + made
        /\ timers' = IF batchEnd < t.toCreate
                       THEN Append(Tail(timers), [created |-> batchEnd, toCreate |-> t.toCreate])
                       ELSE Tail(timers)
        /\ Observe(<<>>, "none")
  /\ NoPair
  /\ UNCHANGED <<inUse, maxSize, minSize, usageHistory, poolHits, poolMisses,
                 maxUsageCount, lastAdaptiveCheck, now, rendIdleVars, styleVars, appVars>>

(***************************************************************************)
(* Pool.trim(k)                                                            *)
(***************************************************************************)
PoolTrim(k) ==
  /\ pool' = TrimPool(pool, k)
  /\ Observe(<<>>, "none")
  /\ NoPair
  /\ UNCHANGED <<inUse, maxSize, minSize, creationCount, usageHistory, poolHits,
                 poolMisses, maxUsageCount, lastAdaptiveCheck, timers, now,
                 rendIdleVars, styleVars, appVars>>

(***************************************************************************)
(* Pool.handleMemoryPressure                                               *)
(***************************************************************************)
\* the free list without the guard on its length
PressurePoolEmptied(p, mn) == SubSeq(p, Len(p) + 1, Len(p))

\* the free list after pool.splice(0, pool.length - minSize)
PressurePool(p, mn) == IF Len(p) > mn THEN SubSeq(p, Len(p) - mn + 1, Len(p)) ELSE p

PoolHandleMemoryPressure ==
  /\ pool' = PressurePool(pool, minSize)
  /\ Observe(<<>>, "pressure")
  /\ NoPair
  /\ UNCHANGED <<inUse, maxSize, minSize, creationCount, usageHistory, poolHits,
                 poolMisses, maxUsageCount, lastAdaptiveCheck, timers, now,
                 rendIdleVars, styleVars, appVars>>

(***************************************************************************)
(* Pool.clear                                                              *)
(***************************************************************************)
PoolClear ==
  /\ pool' = <<>>
  /\ inUse' = {}
  /\ usageHistory' = <<>>
  /\ poolHits' = 0
  /\ poolMisses' = 0
  /\ maxUsageCount' = 0
  /\ lastAdaptiveCheck' = 0
  /\ Observe(<<>>, "none")
  /\ NoPair
  /\ UNCHANGED <<maxSize, minSize, creationCount, timers, now, rendIdleVars, styleVars, appVars>>

(***************************************************************************)
(* LodManager: the level table and shouldUpdate.  Fractions are kept in    *)
(* hundredths (importance 0.9 is 90, effectComplexity 0.75 is 75).         *)
(***************************************************************************)
\* DEFAULT_LOD_LEVELS[level].updateFrequency
UpdateFrequencyOf(level) == <<5, 3, 2, 1, 1>>[level + 1]

\* DEFAULT_LOD_LEVELS[level].effectComplexity, in hundredths
EffectComplexityOf(level) == <<10, 30, 50, 75, 100>>[level + 1]

\* DEFAULT_LOD_LEVELS[level].postProcessingEnabled
PostProcessingEnabledOf(level) == <<FALSE, FALSE, TRUE, TRUE, TRUE>>[level + 1]

ImportanceBoostAbove == 80     \* importance > 0.8 updates more often
DistanceStep == 30             \* one more frame per 30 units beyond adaptiveDistance
MaxDistanceFactor == 3
MaxEffectiveFrequency == 6
DefaultImportance == 50

\* effectiveFrequency of shouldUpdate; dynamicUpdateFrequency and
\* distanceScalingEnabled are never switched off
EffectiveFrequency(level, importance, distance, adaptive) ==
  LET base == UpdateFrequencyOf(level)
      boosted == IF importance > ImportanceBoostAbove THEN Max(1, base - 1) ELSE base
      distanceFactor == Min(MaxDistanceFactor, ((distance - adaptive) \div DistanceStep) + 1)
  IN IF distance > adaptive
       THEN Min(MaxEffectiveFrequency, boosted + distanceFactor)
       ELSE boosted

\* DEFAULT_LOD_LEVELS[level].particleCount
ParticleCountOf(level) == <<100, 300, 800, 1500, 3000>>[level + 1]

\* minCount of getParticleCount: Math.max(10, Math.floor(baseCount * 0.1))
MinCountNone(baseCount) == 0
MinCount(baseCount) == Max(10, baseCount \div 10)

\* distanceFactor of getParticleCount in 150ths, 150 where it is not applied
ParticleDistanceFactor(distance, adaptive) ==
  IF distance > 0 /\ distance > adaptive
    THEN Max(30, 150 - (distance - adaptive))
    ELSE 150

\* Math.floor(baseCount * scaleFactor) with scaleFactor = particleCount / 3000
\* * (0.5 + importance) * distanceFactor; importanceBasedLod and
\* distanceScalingEnabled are never switched off.  The table is taken in
\* hundreds and the product is the one of exact arithmetic.
ScaledCount(baseCount, level, importance, distance, adaptive) ==
  (baseCount * (ParticleCountOf(level) \div 100) * (50 + importance)
     * ParticleDistanceFactor(distance, adaptive)) \div (30 * 100 * 150)

\* LodManager.getParticleCount(baseCount, importance, distance)
GetParticleCount(baseCount, level, importance, distance, adaptive) ==
  Max(MinCount(baseCount), ScaledCount(baseCount, level, importance, distance, adaptive))

\* this.frameCounter % effectiveFrequency === 0
CounterDueShifted(counter, frequency) == (counter + 1) % frequency = 0
CounterDue(counter, frequency) == counter % frequency = 0

(***************************************************************************)
(* BaseVisualization and WaveformVisualizer.  One style instance is alive  *)
(* at a time, as under the VisualizationManager; styleId is its serial.    *)
(* Times of the style's clock are in hundredths of a second.  An object of *)
(* the scene graph is a name; a geometry or material is                    *)
(* <<kind, name, serial>>.  A listener on the document is the function     *)
(* object <<instance, site of the bind() call that made it>>.              *)
(***************************************************************************)
VisibilityThreshold == 100
MemoryCleanupInterval == 3000       \* memoryCleanupInterval / 1000 seconds
BeatConfidenceAbove == 50           \* beat.confidence > 0.5
LoudAbove == 70                     \* volume > 0.7
BeatImportance == 90
LoudImportance == 80
DefaultQualityScale == 100
RipplesPerConfidence == 3           \* Math.ceil(intensity * 3) ripples

MaxStyles == 2            \* style instances constructed
MaxStyleFrames == 2       \* update() calls on one instance
MaxElapsed == 3121        \* the style's clock stops advancing here
MaxRings == 3             \* ripple rings one instance creates
MaxShaderMaterials == 2   \* createShaderMaterial calls outside init()
MaxCounter == 9           \* shouldUpdate() calls

\* audio frames: silence, a loud frame, a weak beat and a confident beat
AudioFrames ==
  { [detected |-> FALSE, confidence |-> 0, volume |-> 50],
    [detected |-> FALSE, confidence |-> 0, volume |-> 80],
    [detected |-> TRUE, confidence |-> 30, volume |-> 50],
    [detected |-> TRUE, confidence |-> 90, volume |-> 50] }
\* distance of the camera from the origin; -1 is a call without a camera
CameraDistances == {-1, 100}
ClockAdvances == {0, 3001}
ShortestRipple == 100
RippleDurations == {ShortestRipple}    \* 1.0 + Math.random() seconds; one draw per call
CacheKeys == {1}                    \* 0 is a call without cacheKey
PoolKeys == {1}
ImportanceArgs == {50, 90}
DistanceArgs == {0, 60}
StyleDeviceGuesses == {1, 3}         \* levels updating every 3rd and every frame

WaveformObjects == {"rippleGroup", "ambientLight", "pointLight",
                    "waveformMesh", "waveLineMesh", "background"}

\* geometries and materials WaveformVisualizer.init() creates
InitCreated == { <<"geometry", "wave", 0>>, <<"material", "wave", 0>>,
                 <<"geometry", "line", 0>>, <<"material", "line", 0>>,
                 <<"geometry", "background", 0>>, <<"material", "background", 0>> }

\* those of them that reach this.materials (createShaderMaterial, the push
\* in createWaveformLine) and this.geometries (addObject of a THREE.Mesh; a
\* THREE.Line is not one)
InitMaterials == { <<"material", "wave", 0>>, <<"material", "line", 0>>,
                   <<"material", "background", 0>> }
InitGeometries == { <<"geometry", "wave", 0>>, <<"geometry", "background", 0>> }

RingsCreated == Cardinality({r \in created : r[1] = "geometry" /\ r[2] = "ring"})
ShadersCreated == Cardinality({r \in created : r[1] = "material" /\ r[2] = "shader"})

\* the materials a cache of <<key, material>> entries holds
Cached(cache) == {e[2] : e \in cache}

\* no shouldUpdate() call yet
NoCall == [value |-> FALSE, importance |-> 0, distance |-> 0]

\* what LodManager.shouldUpdate(importance, distance) returns and leaves behind
ShouldUpdateResult(importance, distance) ==
  [value |-> CounterDue(frameCounter + 1,
               EffectiveFrequency(lodLevel, importance, distance, adaptiveDistance)),
   importance |-> importance, distance |-> distance]

\* what the latest update() call of the instance was given and did
NoUpdate == [called |-> FALSE, gate |-> FALSE, qualityChanged |-> FALSE, ran |-> FALSE,
             audio |-> [detected |-> FALSE, confidence |-> 0, volume |-> 0]]

\* the field initialiser of shaderComplexity
DefaultShaderComplexity == "medium"

\* the tier the constructor and update() set for a quality scale in hundredths
ComplexityTier(scale) == IF scale < 40 THEN "low" ELSE IF scale < 80 THEN "medium" ELSE "high"

\* the fields of a newly constructed instance
FreshStyle(lod) ==
  /\ styleLodManager' = lod
  /\ styleFrameCount' = 0
  /\ qualityScale' = IF lod # 0 THEN EffectComplexityOf(lodLevel) ELSE DefaultQualityScale
  /\ shaderComplexity' = IF lod # 0 THEN ComplexityTier(EffectComplexityOf(lodLevel))
                                    ELSE DefaultShaderComplexity
  /\ uniforms' = [time |-> 0, beat |-> 0, volume |-> 0,
                  qualityScale |-> IF lod # 0 THEN EffectComplexityOf(lodLevel)
                                              ELSE DefaultQualityScale]
  /\ updateFrequency' = IF lod # 0 THEN UpdateFrequencyOf(lodLevel) ELSE 1
  /\ isVisible' = TRUE
  /\ distanceToCamera' = 0
  /\ clockElapsed' = 0
  /\ lastCleanupTime' = 0
  /\ objects' = {}
  /\ materials' = {}
  /\ geometries' = {}
  /\ textureCache' = {}
  /\ materialCache' = {}
  /\ geometryCache' = {}
  /\ objectPools' = {}
  /\ ripples' = {}
  /\ rippleGroup' = FALSE
  /\ created' = {}
  /\ gpuDisposed' = {}
  /\ lastUpdate' = NoUpdate

\* no style constructed yet; serial LodManagers have been
NoStyle(serial) ==
  /\ styleId = 0
  /\ styleStage = "none"
  /\ styleLodManager = 0
  /\ styleFrameCount = 0
  /\ qualityScale = DefaultQualityScale
  /\ shaderComplexity = DefaultShaderComplexity
  /\ uniforms = [time |-> 0, beat |-> 0, volume |-> 0, qualityScale |-> DefaultQualityScale]
  /\ updateFrequency = 1
  /\ isVisible = TRUE
  /\ distanceToCamera = 0
  /\ clockElapsed = 0
  /\ lastCleanupTime = 0
  /\ sceneChildren = {}
  /\ objects = {}
  /\ materials = {}
  /\ geometries = {}
  /\ textureCache = {}
  /\ materialCache = {}
  /\ geometryCache = {}
  /\ objectPools = {}
  /\ ripples = {}
  /\ rippleGroup = FALSE
  /\ created = {}
  /\ gpuDisposed = {}
  /\ lastUpdate = NoUpdate
  /\ listeners = {}
  /\ handlerRuns = {}
  /\ frameCounter = 0
  /\ lodReturned = NoCall
  /\ lodSerial = serial
  /\ liveStyles = {}

\* the scene's children after clearScene(removeAllChildren) of a style that
\* tracks the objects tracked
SceneAfterClearTracked(children, tracked, removeAllChildren) == children \ tracked
SceneAfterClear(children, tracked, removeAllChildren) ==
  IF removeAllChildren THEN {} ELSE children \ tracked

\* what a document-level listener set looks like after removeEventListener
\* is handed the function object f
Removed(ls, f) == ls \ {f}

(***************************************************************************)
(* new WaveformVisualizer(scene), or a style constructed with the          *)
(* LodManager (lod # 0): BaseVisualization.constructor                     *)
(***************************************************************************)
StyleConstruct(lod) ==
  /\ styleId' = styleId + 1
  /\ liveStyles' = liveStyles \cup {styleId + 1}
  /\ styleStage' = "constructed"
  /\ FreshStyle(lod)
  /\ listeners' = listeners \cup {<<styleId + 1, "constructor">>}
  /\ UNCHANGED <<sceneChildren, handlerRuns, frameCounter, lodReturned, lodSerial>>

(***************************************************************************)
(* WaveformVisualizer.init: clearScene(), clock.start(), then the ripple   *)
(* group, the lights, the waveform mesh and line and the background.       *)
(***************************************************************************)
StyleInit ==
  /\ styleStage = "constructed"
  /\ styleStage' = "initialized"
  /\ clockElapsed' = 0
  /\ sceneChildren' = SceneAfterClear(sceneChildren, objects, TRUE) \cup WaveformObjects
  /\ objects' = WaveformObjects
  /\ rippleGroup' = TRUE
  /\ created' = created \cup InitCreated
  /\ materials' = materials \cup InitMaterials
  /\ geometries' = geometries \cup InitGeometries
  /\ UNCHANGED <<styleId, styleLodManager, styleFrameCount, qualityScale, shaderComplexity, uniforms,
                 updateFrequency, isVisible, distanceToCamera, lastCleanupTime,
                 textureCache, materialCache, geometryCache, objectPools, ripples,
                 gpuDisposed, lastUpdate, listeners, handlerRuns, frameCounter,
                 lodReturned, lodSerial, liveStyles>>

\* BaseVisualization.setLodManager
StyleSetLodManagerFields(lod) ==
  /\ styleLodManager' = lod
  /\ qualityScale' = IF lod # 0 THEN EffectComplexityOf(lodLevel) ELSE qualityScale
  /\ shaderComplexity' = shaderComplexity
  /\ uniforms' = IF lod # 0 THEN [uniforms EXCEPT !.qualityScale = EffectComplexityOf(lodLevel)]
                            ELSE uniforms
  /\ updateFrequency' = IF lod # 0 THEN UpdateFrequencyOf(lodLevel) ELSE updateFrequency

StyleSetLodManager ==
  /\ styleStage \in {"constructed", "initialized"}
  /\ lodSerial > 0
  /\ StyleSetLodManagerFields(lodSerial)
  /\ UNCHANGED <<styleId, styleStage, styleFrameCount, isVisible, distanceToCamera,
                 clockElapsed, lastCleanupTime, sceneChildren, objects, materials,
                 geometries, textureCache, materialCache, geometryCache, objectPools,
                 ripples, rippleGroup, created, gpuDisposed, lastUpdate, listeners,
                 handlerRuns, frameCounter, lodReturned, lodSerial, liveStyles>>

(***************************************************************************)
(* BaseVisualization.createShaderMaterial with cache key key (0: without)  *)
(* and getObjectPool(key), as a style's own code may call them.            *)
(***************************************************************************)
CreateShaderMaterial(key) ==
  /\ styleStage = "initialized"
  /\ LET hit == key # 0 /\ \E e \in materialCache : e[1] = key
         m == <<"material", "shader", ShadersCreated + 1>>
     IN /\ created' = IF hit THEN created ELSE created \cup {m}
        /\ materials' = IF hit THEN materials ELSE materials \cup {m}
        /\ materialCache' = IF hit \/ key = 0 THEN materialCache
                                              ELSE materialCache \cup {<<key, m>>}
  /\ UNCHANGED <<styleId, styleStage, styleLodManager, styleFrameCount, qualityScale, shaderComplexity,
                 uniforms, updateFrequency, isVisible, distanceToCamera, clockElapsed,
                 lastCleanupTime, sceneChildren, objects, geometries, textureCache,
                 geometryCache, objectPools, ripples, rippleGroup, gpuDisposed,
                 lastUpdate, listeners, handlerRuns, frameCounter, lodReturned, lodSerial, liveStyles>>

GetObjectPool(key) ==
  /\ styleStage = "initialized"
  /\ objectPools' = objectPools \cup {key}
  /\ UNCHANGED <<styleId, styleStage, styleLodManager, styleFrameCount, qualityScale, shaderComplexity,
                 uniforms, updateFrequency, isVisible, distanceToCamera, clockElapsed,
                 lastCleanupTime, sceneChildren, objects, materials, geometries,
                 textureCache, materialCache, geometryCache, ripples, rippleGroup,
                 created, gpuDisposed, lastUpdate, listeners, handlerRuns, frameCounter,
                 lodReturned, lodSerial, liveStyles>>

\* something else puts a child of its own into the shared scene
SceneAddStray ==
  /\ sceneChildren' = sceneChildren \cup {"stray"}
  /\ UNCHANGED <<styleId, styleStage, styleLodManager, styleFrameCount, qualityScale, shaderComplexity,
                 uniforms, updateFrequency, isVisible, distanceToCamera, clockElapsed,
                 lastCleanupTime, objects, materials, geometries, textureCache,
                 materialCache, geometryCache, objectPools, ripples, rippleGroup,
                 created, gpuDisposed, lastUpdate, listeners, handlerRuns, frameCounter,
                 lodReturned, lodSerial, liveStyles>>

(***************************************************************************)
(* BaseVisualization.update(audioData, instruments, camera), dt after the  *)
(* previous reading of the clock, and the WaveformVisualizer               *)
(* updateVisualization it may call.                                        *)
(***************************************************************************)
ImportanceFactor(audio) ==
  IF audio.detected THEN BeatImportance
  ELSE IF audio.volume > LoudAbove THEN LoudImportance ELSE DefaultImportance

\* a confident beat: forces the update
BeatNeverForces(audio) == FALSE
BeatForces(audio) == audio.detected /\ audio.confidence > BeatConfidenceAbove

\* the value update() stores in uniforms.beat, in hundredths
BeatUniformStuck(audio) == 100
BeatUniform(audio) == IF audio.detected THEN 100 ELSE 0

\* Math.ceil(intensity * 3)
RippleCount(confidence) == (confidence * RipplesPerConfidence + 99) \div 100

\* the ripples updateRipples() removes at time t
Expired(t) == {r \in ripples : t - r.createTime >= r.duration}

\* cleanupUnusedResources: nothing sets userData.lastUsed, so every cached
\* entry counts as unused
SweptCaches == Cached(textureCache) \cup Cached(materialCache) \cup Cached(geometryCache)

\* the skip test without the visibility check
UpdateRunsUnseen(visible, shouldUpdate) == shouldUpdate

\* if (!this.isVisible || !shouldUpdate) return
UpdateRuns(visible, shouldUpdate) == visible /\ shouldUpdate

StyleUpdate(audio, camera, dt, duration) ==
  /\ styleStage = "initialized"
  /\ LET t == clockElapsed + dt
         distance == IF camera >= 0 THEN camera ELSE 0
         visible == IF camera >= 0 THEN camera < VisibilityThreshold ELSE TRUE
         hasLod == styleLodManager # 0
         call == ShouldUpdateResult(ImportanceFactor(audio), distance)
         gate == IF hasLod
                   THEN call.value
                   ELSE (styleFrameCount + 1) % updateFrequency = 0
         qualityChanged == hasLod /\ EffectComplexityOf(lodLevel) # qualityScale
         shouldUpdate == gate \/ qualityChanged \/ BeatForces(audio)
         sweep == t - lastCleanupTime > MemoryCleanupInterval
         runs == UpdateRuns(visible, shouldUpdate)
         count == IF runs /\ audio.detected /\ rippleGroup
                    THEN RippleCount(audio.confidence) ELSE 0
         rings == (RingsCreated + 1) .. (RingsCreated + count)
     IN /\ RingsCreated + count <= MaxRings
        /\ styleFrameCount' = styleFrameCount + 1
        /\ clockElapsed' = t
        /\ uniforms' = [time |-> t, beat |-> BeatUniform(audio), volume |-> audio.volume,
                        qualityScale |-> IF qualityChanged THEN EffectComplexityOf(lodLevel)
                                                           ELSE uniforms.qualityScale]
        /\ isVisible' = visible
        /\ distanceToCamera' = distance
        /\ frameCounter' = IF hasLod THEN frameCounter + 1 ELSE frameCounter
        /\ lodReturned' = IF hasLod THEN call ELSE lodReturned
        /\ qualityScale' = IF qualityChanged THEN EffectComplexityOf(lodLevel) ELSE qualityScale
        /\ shaderComplexity' = IF qualityChanged
                                 THEN ComplexityTier(EffectComplexityOf(lodLevel))
                                 ELSE shaderComplexity
        /\ lastCleanupTime' = IF sweep THEN t ELSE lastCleanupTime
        /\ textureCache' = IF sweep THEN {} ELSE textureCache
        /\ materialCache' = IF sweep THEN {} ELSE materialCache
        /\ geometryCache' = IF sweep THEN {} ELSE geometryCache
        /\ gpuDisposed' = IF sweep THEN gpuDisposed \cup SweptCaches ELSE gpuDisposed
        /\ ripples' = IF runs /\ rippleGroup
                        THEN (ripples \ Expired(t)) \cup
                             {[ring |-> RingsCreated + i, createTime |-> t,
                               duration |-> duration] : i \in 1 .. count}
                        ELSE ripples
        /\ created' = created \cup {<<"geometry", "ring", k>> : k \in rings}
                              \cup {<<"material", "ring", k>> : k \in rings}
        /\ materials' = materials \cup {<<"material", "ring", k>> : k \in rings}
        /\ lastUpdate' = [called |-> TRUE, gate |-> gate, qualityChanged |-> qualityChanged,
                          ran |-> runs, audio |-> audio]
  /\ UNCHANGED <<styleId, styleStage, styleLodManager, updateFrequency, sceneChildren,
                 objects, geometries, objectPools, rippleGroup, listeners, handlerRuns,
                 lodSerial, liveStyles>>

(***************************************************************************)
(* WaveformVisualizer.dispose, which ends in BaseVisualization.dispose.    *)
(* removeEventListener is handed a function object made by a bind() call   *)
(* of its own.                                                             *)
(***************************************************************************)
StyleDispose ==
  /\ styleStage # "none"
  /\ styleStage' = "disposed"
  /\ ripples' = {}
  /\ rippleGroup' = FALSE
  /\ listeners' = Removed(listeners, <<styleId, "dispose">>)
  /\ liveStyles' = liveStyles \ {styleId}
  /\ gpuDisposed' = gpuDisposed \cup materials \cup geometries \cup SweptCaches
  /\ textureCache' = {}
  /\ materialCache' = {}
  /\ geometryCache' = {}
  /\ materials' = {}
  /\ geometries' = {}
  /\ objectPools' = {}
  /\ objects' = {}
  /\ sceneChildren' = SceneAfterClear(sceneChildren, objects, TRUE)
  /\ UNCHANGED <<styleId, styleLodManager, styleFrameCount, qualityScale, shaderComplexity, uniforms,
                 updateFrequency, isVisible, distanceToCamera, clockElapsed,
                 lastCleanupTime, created, lastUpdate, handlerRuns, frameCounter,
                 lodReturned, lodSerial>>

(***************************************************************************)
(* The style listeners of a 'memory-pressure' event:                       *)
(* BaseVisualization.handleMemoryPressure of every instance whose listener *)
(* is registered.  Only the latest instance can have anything cached.      *)
(***************************************************************************)
StyleListenersRun ==
  /\ handlerRuns' = {f[1] : f \in listeners}
  /\ LET reached == styleId \in {f[1] : f \in listeners}
     IN /\ gpuDisposed' = IF reached THEN gpuDisposed \cup SweptCaches ELSE gpuDisposed
        /\ textureCache' = IF reached THEN {} ELSE textureCache
        /\ materialCache' = IF reached THEN {} ELSE materialCache
        /\ geometryCache' = IF reached THEN {} ELSE geometryCache
  /\ UNCHANGED <<styleId, styleStage, styleLodManager, styleFrameCount, qualityScale, shaderComplexity,
                 uniforms, updateFrequency, isVisible, distanceToCamera, clockElapsed,
                 lastCleanupTime, sceneChildren, objects, materials, geometries,
                 objectPools, ripples, rippleGroup, created, lastUpdate, listeners,
                 frameCounter, lodReturned, lodSerial, liveStyles>>

(***************************************************************************)
(* LodManager.shouldUpdate(importance, distance), called directly.         *)
(***************************************************************************)
LodShouldUpdate(importance, distance) ==
  /\ lodSerial > 0
  /\ frameCounter' = frameCounter + 1
  /\ lodReturned' = ShouldUpdateResult(importance, distance)
  /\ UNCHANGED <<styleId, styleStage, styleLodManager, styleFrameCount, qualityScale, shaderComplexity,
                 uniforms, updateFrequency, isVisible, distanceToCamera, clockElapsed,
                 lastCleanupTime, sceneChildren, objects, materials, geometries,
                 textureCache, materialCache, geometryCache, objectPools, ripples,
                 rippleGroup, created, gpuDisposed, lastUpdate, listeners, handlerRuns,
                 lodSerial, liveStyles>>

\* VisualizationManager: the types of style and the fields of a manager
VisualizationTypes == {"frequency", "waveform"}
DefaultVisualizationType == "frequency"

\* the sections timed with beginSection/endSection: one with a metric field
\* of its own and one without
Sections == {"update", "cleanup"}
MetricSections == {"update"}
NoMarker == -1          \* timingMarkers.get(section) === undefined

\* a monitor no section was timed on
NoSections ==
  /\ timingMarkers = [section \in Sections |-> NoMarker]
  /\ sectionTimes = [section \in Sections |-> <<>>]
  /\ sectionMetrics = [section \in MetricSections |-> 0]
  /\ sectionBegun = [section \in Sections |-> FALSE]
  /\ sectionWarned = FALSE

\* no getParticleCount() call yet
NoQuery == [called |-> FALSE, baseCount |-> 0, importance |-> 0, distance |-> 0,
            level |-> 0, adaptive |-> 0, result |-> 0]

\* nothing is dispatched on the document
NoDispatch ==
  /\ pressureEvents' = 0
  /\ lodEvents' = <<>>
  /\ postRuns' = 0

\* Fractions of the post-processing configuration are kept in hundredths
\* times 2^MaxHalvings, so that MaxHalvings halvings are exact.
MaxHalvings == 4
ConfigUnit == 2 ^ MaxHalvings

\* defaultPostProcessingConfig as the module defines it: enabled, bloom.strength
\* 0.7, bloom.radius 0.5, chromaticAberration.enabled
DefaultConfig == [enabled |-> TRUE, bloomStrength |-> 70 * ConfigUnit,
                  bloomRadius |-> 50 * ConfigUnit, chromaticAberration |-> TRUE]

\* a manager just constructed, with no post-processing and no section timed
NoManager ==
  /\ vmRenderer = FALSE
  /\ vmMonitor = 0
  /\ vmLodManager = 0
  /\ vmPostProcessing = FALSE
  /\ postEnabled = TRUE
  /\ visualizationType = DefaultVisualizationType
  /\ pendingType = DefaultVisualizationType
  /\ activeType = DefaultVisualizationType
  /\ currentVisualization = 0
  /\ vmOp = "constructor"
  /\ vmTodo = <<>>
  /\ vmDone = <<>>
  /\ levelAtBegin = 0
  /\ NoSections
  /\ particleQuery = NoQuery
  /\ postListeners = 0
  /\ postProcessingConfig = DefaultConfig
  /\ defaultPostProcessingConfig = DefaultConfig
  /\ configShared = TRUE
  /\ requestedConfig = DefaultConfig


(***************************************************************************)
(* Initial state: a PerformanceMonitor and the LodManager constructed on   *)
(* it.  The LodManager starts at the device guess and pushes it into the   *)
(* monitor with setQualityLevel.                                           *)
(***************************************************************************)
InitMon(guess) ==
  /\ now = 0
  /\ inFrame = FALSE
  /\ frameStartTime = 0
  /\ lastFrameTime = 0
  /\ frameCount = 0
  /\ fps = 0
  /\ minFps = Unsampled
  /\ maxFps = 0
  /\ fpsHistory = <<>>
  /\ frameTime = 0
  /\ frameBudgetUsage = 0
  /\ hasFrameDrops = FALSE
  /\ isPerformanceCritical = FALSE
  /\ isMemoryConstrained = FALSE
  /\ gcTime = <<0, 0>>
  /\ currentQualityLevel = ClampQuality(Min(guess, NumLodLevels - 1))
  /\ targetQualityLevel = ClampQuality(Min(guess, NumLodLevels - 1))
  /\ lastAdjustmentTime = 0
  /\ lodLevel = Min(guess, NumLodLevels - 1)
  /\ adaptiveDistance = DefaultAdaptiveDistance
  /\ qualityCalls = <<>>
  /\ lodCalls = <<>>
  /\ rendererApplied = <<>>
  /\ lastOp = "init"
  /\ evaluated = FALSE
  /\ ruleMatched = "none"
  /\ gcMatched = FALSE
  /\ evalTime = -1
  /\ changeTime = -1
  /\ pressureEvents = 0
  /\ lodEvents = <<>>
  /\ postRuns = 0

\* the monitor and the LOD manager next to a pool nothing is called on
Init ==
  /\ \E guess \in DeviceGuesses : InitMon(guess)
  /\ InitPool(0, 0, 0, <<0, 0, 0, 0, 0>>)
  /\ NoStyle(1)
  /\ NoManager

NoEvaluation ==
  /\ evaluated' = FALSE
  /\ ruleMatched' = "none"
  /\ gcMatched' = FALSE
  /\ UNCHANGED <<evalTime, changeTime>>

\* The explored schedules: the first QuietFrames frames take no time and
\* nothing else is called between them.
Quiet == frameCount < QuietFrames
GapsNow == IF Quiet THEN {0} ELSE FrameGaps
DurationsNow == IF Quiet THEN {0} ELSE FrameDurations
MemoryNow == IF Quiet THEN {FALSE} ELSE BOOLEAN

(***************************************************************************)
(* PerformanceMonitor.beginFrame, d ms after the previous call.            *)
(***************************************************************************)
BeginFrame(d) ==
  /\ ~inFrame
  /\ now' = now + d
  /\ frameStartTime' = now + d
  /\ inFrame' = TRUE
  /\ qualityCalls' = <<>> /\ lodCalls' = <<>> /\ rendererApplied' = <<>>
  /\ lastOp' = "beginFrame"
  /\ NoEvaluation
  /\ NoDispatch
  /\ UNCHANGED <<lastFrameTime, frameCount, fps, minFps, maxFps, fpsHistory, frameTime,
                 frameBudgetUsage, hasFrameDrops, isPerformanceCritical,
                 isMemoryConstrained, gcTime, currentQualityLevel,
                 targetQualityLevel, lastAdjustmentTime, lodVars,
                 poolVars, poolObsVars, styleVars>>

(***************************************************************************)
(* PerformanceMonitor.endFrame, d ms after beginFrame; mem is what the     *)
(* platform memory API reports (usage above 80% of the heap limit).        *)
(***************************************************************************)
\* this.metrics as checkQualityAdjustment reads it
Metrics(hist, usage, mem, gc) ==
  [current |-> currentQualityLevel, memoryConstrained |-> mem,
   critical |-> PerformanceCritical(hist, usage), usage |-> usage,
   history |-> hist, gc |-> gc]

EndFrame(d, mem) ==
  /\ inFrame
  /\ LET t == now + d
         ft == t - frameStartTime
         hist == PushHistory(fpsHistory, CurrentFps(fps))
         usage == BudgetUsage(ft)
         gc == GcUpdate(gcTime, lastFrameTime, t)
         m == Metrics(hist, usage, mem, gc)
         runs == PolicyRuns(t, lastAdjustmentTime, frameCount + 1)
         r == GcRule(m, PriorityRules(m))
         changes == runs /\ TargetChanges(r, targetQualityLevel)
     IN /\ now' = t
        /\ inFrame' = FALSE
        /\ frameStartTime' = frameStartTime
        /\ lastFrameTime' = t
        /\ frameCount' = frameCount + 1
        /\ fps' = CurrentFps(fps)
        /\ minFps' = MinFps(minFps, CurrentFps(fps))
        /\ maxFps' = Max(maxFps, CurrentFps(fps))
        /\ fpsHistory' = hist
        /\ frameTime' = ft
        /\ frameBudgetUsage' = usage
        /\ hasFrameDrops' = FrameDrops(ft)
        /\ isPerformanceCritical' = m.critical
        /\ isMemoryConstrained' = mem
        /\ gcTime' = gc
        /\ currentQualityLevel' = currentQualityLevel
        /\ targetQualityLevel' = IF changes THEN r[1] ELSE targetQualityLevel
        /\ lastAdjustmentTime' = IF changes THEN t ELSE lastAdjustmentTime
        /\ OnQualityChange(IF changes THEN <<r[1]>> ELSE <<>>)
        /\ adaptiveDistance' = adaptiveDistance
        /\ lastOp' = "endFrame"
        /\ NoDispatch
        /\ evaluated' = runs
        /\ ruleMatched' = IF runs THEN PriorityRules(m)[3] ELSE "none"
        /\ gcMatched' = (runs /\ GcAbove(gc, GcQualityThreshold))
        /\ evalTime' = IF runs THEN t ELSE evalTime
        /\ changeTime' = IF changes THEN t ELSE changeTime
        /\ UNCHANGED <<poolVars, poolObsVars, styleVars>>

(***************************************************************************)
(* PerformanceMonitor.setQualityLevel(n)                                   *)
(***************************************************************************)
SetQualityLevel(n) ==
  /\ currentQualityLevel' = ClampQuality(n)
  /\ targetQualityLevel' = ClampQuality(n)
  /\ OnQualityChange(<<ClampQuality(n)>>)
  /\ lastOp' = "setQualityLevel"
  /\ NoEvaluation
  /\ NoDispatch
  /\ UNCHANGED <<frameVars, lastAdjustmentTime, adaptiveDistance, poolVars, poolObsVars,
                 styleVars>>

(***************************************************************************)
(* LodManager.setQualityLevel(n), called directly.                         *)
(***************************************************************************)
LodSetQualityLevel(n) ==
  /\ LodSet(n)
  /\ qualityCalls' = <<>>
  /\ lastOp' = "lodSetQualityLevel"
  /\ NoEvaluation
  /\ NoDispatch
  /\ UNCHANGED <<monVars, adaptiveDistance, poolVars, poolObsVars, styleVars>>

(***************************************************************************)
(* LodManager.handleMemoryPressure, the 'memory-pressure' listener.        *)
(***************************************************************************)
\* the level its setQualityLevel() is called with
PressureLevelTwoDown(level) == Max(0, level - 2)
PressureLevel(level) == Max(0, level - 1)

\* the 'lod-memory-optimization' events it dispatches, by their detail.level
OptimizationEvents(level) == <<level>>

LodHandleMemoryPressure ==
  /\ IF lodLevel > 0
       THEN LodSet(PressureLevel(lodLevel))
       ELSE lodLevel' = lodLevel /\ rendererApplied' = <<>> /\ lodCalls' = <<>>
  /\ adaptiveDistance' = PressureAdaptiveDistance
  /\ lodEvents' = OptimizationEvents(lodLevel')

\* new PostProcessingManager(...): the constructor registers its
\* 'memory-pressure' listener, which dispose() does not remove
PostConstruct == postListeners' = postListeners + 1

\* PostProcessingManager.handleMemoryPressure of every manager whose listener
\* is registered; the preset it switches to is not modelled
PostListenersRun == postRuns' = postListeners

\* A 'memory-pressure' event dispatched on the document.
MemoryPressureEvent ==
  /\ pressureEvents' = 1
  /\ LodHandleMemoryPressure
  /\ StyleListenersRun
  /\ PostListenersRun
  /\ qualityCalls' = <<>>
  /\ lastOp' = "memoryPressure"
  /\ NoEvaluation
  /\ UNCHANGED <<monVars, poolVars, poolObsVars>>

\* PerformanceMonitor.isUnderMemoryPressure
NeverUnderMemoryPressure(constrained) == FALSE
IsUnderMemoryPressure(constrained) == constrained

\* PerformanceMonitor.handleMemoryPressure
HandleMemoryPressure ==
  /\ IF IsUnderMemoryPressure(isMemoryConstrained)
       THEN /\ pressureEvents' = 1
            /\ LodHandleMemoryPressure /\ StyleListenersRun /\ PostListenersRun
       ELSE /\ lodLevel' = lodLevel /\ rendererApplied' = <<>> /\ lodCalls' = <<>>
            /\ adaptiveDistance' = adaptiveDistance
            /\ NoDispatch
            /\ UNCHANGED styleVars
  /\ qualityCalls' = <<>>
  /\ lastOp' = "handleMemoryPressure"
  /\ NoEvaluation
  /\ UNCHANGED <<monVars, poolVars, poolObsVars>>

(***************************************************************************)
(* PerformanceMonitor.beginSection(section), d ms after the previous call. *)
(***************************************************************************)
BeginSection(section, d) ==
  /\ now' = now + d
  /\ timingMarkers' = [timingMarkers EXCEPT ![section] = now + d]
  /\ sectionBegun' = [sectionBegun EXCEPT ![section] = TRUE]
  /\ sectionWarned' = FALSE
  /\ UNCHANGED <<sectionTimes, sectionMetrics>>

\* the rolling history of a section after a duration is pushed
PushSectionTime(times, duration) ==
  LET pushed == Append(times, duration)
  IN IF Len(pushed) > HistorySize THEN Tail(pushed) ELSE pushed

(***************************************************************************)
(* PerformanceMonitor.endSection(section), d ms after the previous call.   *)
(* The marker of the section stays in timingMarkers.                       *)
(***************************************************************************)
EndSection(section, d) ==
  /\ now' = now + d
  /\ sectionBegun' = [sectionBegun EXCEPT ![section] = FALSE]
  /\ IF timingMarkers[section] = NoMarker
       THEN /\ sectionWarned' = TRUE
            /\ UNCHANGED <<sectionTimes, sectionMetrics>>
       ELSE LET duration == now + d - timingMarkers[section]
            IN /\ sectionWarned' = FALSE
               /\ sectionTimes' = [sectionTimes EXCEPT
                                     ![section] = PushSectionTime(@, duration)]
               /\ sectionMetrics' = IF section \in MetricSections
                                      THEN [sectionMetrics EXCEPT ![section] = duration]
                                      ELSE sectionMetrics
  /\ UNCHANGED timingMarkers

(***************************************************************************)
(* LodManager.getParticleCount(baseCount, importance, distance), called    *)
(* directly.                                                               *)
(***************************************************************************)
GetParticleCountCall(baseCount, importance, distance) ==
  particleQuery' = [called |-> TRUE, baseCount |-> baseCount, importance |-> importance,
                    distance |-> distance, level |-> lodLevel, adaptive |-> adaptiveDistance,
                    result |-> GetParticleCount(baseCount, lodLevel, importance, distance,
                                                adaptiveDistance)]

(***************************************************************************)
(* The monitor and the LOD manager under every operation.  The clock stops *)
(* at MaxTime and endFrame() is explored MaxFrames times.                  *)
(***************************************************************************)
MonitorNext ==
  \/ \E d \in GapsNow : now + d <= MaxTime /\ BeginFrame(d)
  \/ \E d \in DurationsNow, mem \in MemoryNow :
        /\ frameCount < MaxFrames
        /\ now + d <= MaxTime
        /\ EndFrame(d, mem)
  \/ \E n \in LevelArgs : ~Quiet /\ SetQualityLevel(n)
  \/ \E n \in LevelArgs : ~Quiet /\ LodSetQualityLevel(n)
  \/ ~Quiet /\ MemoryPressureEvent
  \/ ~Quiet /\ HandleMemoryPressure

Next == MonitorNext /\ UNCHANGED appVars

Spec == Init /\ [][Next]_vars

(***************************************************************************)
(* A synthetic frame trace: the frame rate falls from 60 over 40 to 20     *)
(* frames per second while every frame stays inside its budget, no memory  *)
(* constraint is reported and nothing else is called.                      *)
(***************************************************************************)
TraceFrames == 600      \* samples of the trace
TraceFrameMs == 5       \* ms each frame of the trace takes

\* frames per second at sample i of the trace
TraceFps(i) == IF 3 * i < TraceFrames THEN 60 ELSE IF 3 * i < 2 * TraceFrames THEN 40 ELSE 20

\* ms from one endFrame() to the next at that rate
TracePeriod(i) == 1000 \div TraceFps(i)

TraceBegin == BeginFrame(TracePeriod(frameCount) - TraceFrameMs)

TraceEnd == frameCount < TraceFrames /\ EndFrame(TraceFrameMs, FALSE)

TraceNext == (TraceBegin \/ TraceEnd) /\ UNCHANGED appVars

TraceSpec == Init /\ [][TraceNext]_vars

(***************************************************************************)
(* A trace of consistently fast frames: 100 frames per second, each frame  *)
(* using 30% of its budget, no memory constraint, nothing else called.     *)
(***************************************************************************)
FastFrames == 110       \* frames of the trace
FastFrameMs == 5        \* ms each frame takes
FastGapMs == 5          \* ms from endFrame() to the next beginFrame()

FastBegin == BeginFrame(FastGapMs)

FastEnd == frameCount < FastFrames /\ EndFrame(FastFrameMs, FALSE)

FastNext == (FastBegin \/ FastEnd) /\ UNCHANGED appVars

FastSpec == Init /\ [][FastNext]_vars

(***************************************************************************)
(* The pool under every operation.  Three kinds of pool are explored:      *)
(*  - fresh pools of several configurations, with FreeUsages get() or      *)
(*    getBatch() calls and MaxCreated objects;                             *)
(*  - a pool warmed up by QuietUsages get() calls that keep QuietHeld      *)
(*    objects in use, giving the oldest back with release() before taking  *)
(*    again, with nothing else called; then WarmCalls calls, WarmUsages    *)
(*    of them get() or getBatch(), and MaxCreatedWarm objects;             *)
(*  - a pool constructed with ChunkedSize objects, which prewarm creates   *)
(*    in more than one createBatch run; then ChunkedCalls calls,           *)
(*    ChunkedUsages of them get() or getBatch().                           *)
(* usageBudget is <<warm-up usages left, objects held while warming up,    *)
(* usages left, calls left or -1 for any number, objects to create>>.      *)
(***************************************************************************)
PoolQuiet == usageBudget[1] > 0
Counted == usageBudget[4] >= 0

\* a get()/getBatch() call of the schedule
SpendUsage ==
  /\ IF PoolQuiet THEN Cardinality(inUse) < usageBudget[2]
                  ELSE usageBudget[3] > 0 /\ usageBudget[4] # 0
  /\ usageBudget' = IF PoolQuiet
                      THEN [usageBudget EXCEPT ![1] = @ - 1]
                      ELSE [usageBudget EXCEPT ![3] = @ - 1,
                                               ![4] = IF Counted THEN @ - 1 ELSE @]

\* any other call of the schedule
SpendCall ==
  /\ PoolQuiet \/ usageBudget[4] # 0
  /\ usageBudget' = IF PoolQuiet \/ ~Counted THEN usageBudget
                                             ELSE [usageBudget EXCEPT ![4] = @ - 1]

Oldest(S) == CHOOSE o \in S : \A p \in S : o <= p

\* objects to release: those in use, one no pool call made, and the free
\* object released last
Releasable ==
  IF PoolQuiet
    THEN IF Cardinality(inUse) = usageBudget[2] THEN {Oldest(inUse)} ELSE {}
    ELSE inUse \cup {0} \cup (IF pool = <<>> THEN {} ELSE {pool[Len(pool)]})

\* <<initialSize, maxSize, minSize>> of the pools explored fresh
FreshPools == {<<0, 0, 0>>, <<2, 0, 1>>, <<0, 2, 0>>, <<3, 2, 1>>}

PoolInit ==
  /\ InitMon(0)
  /\ NoStyle(1)
  /\ NoManager
  /\ \/ \E c \in FreshPools :
          InitPool(c[1], c[2], c[3], <<0, 0, FreeUsages, -1, MaxCreated>>)
     \/ InitPool(0, 0, 0, <<QuietUsages, QuietHeld, WarmUsages, WarmCalls, MaxCreatedWarm>>)
     \/ InitPool(ChunkedSize, 0, 0, <<0, 0, ChunkedUsages, ChunkedCalls, ChunkedSize>>)

Creatable == usageBudget[5]

PoolNext ==
  \/ SpendUsage /\ PoolGet /\ creationCount' <= Creatable
  \/ \E o \in Releasable :
        SpendCall /\ PoolRelease(o) /\ creationCount' <= Creatable
  \/ \E n \in BatchCounts :
        ~PoolQuiet /\ SpendUsage /\ PoolGetBatch(n) /\ creationCount' <= Creatable
  \/ \E objs \in BatchesOf(Releasable, MaxBatch), d \in ClockSteps :
        /\ ~PoolQuiet
        /\ now + d <= PoolMaxTime
        /\ SpendCall
        /\ PoolReleaseBatch(objs, d)
        /\ creationCount' <= Creatable
  \/ \E n \in PrewarmCounts :
        ~PoolQuiet /\ SpendCall /\ PoolPrewarm(n) /\ creationCount' <= Creatable
  \/ PoolCreateBatch /\ UNCHANGED usageBudget
  \/ \E k \in TrimSizes : ~PoolQuiet /\ SpendCall /\ PoolTrim(k)
  \/ ~PoolQuiet /\ SpendCall /\ PoolHandleMemoryPressure
  \/ ~PoolQuiet /\ SpendCall /\ PoolClear

PoolSpec == PoolInit /\ [][PoolNext]_vars

(***************************************************************************)
(* One object taken and given back over and over: get(), release(obj),     *)
(* get(), release(obj), ... ReuseCycles times on a fresh pool with no cap   *)
(* and minSize 0.                                                          *)
(***************************************************************************)
ReuseCycles == 55

ReuseInit ==
  /\ InitMon(0)
  /\ NoStyle(1)
  /\ NoManager
  /\ InitPool(0, 0, 0, <<0, 0, ReuseCycles, -1, ReuseCycles>>)

ReuseNext ==
  \/ inUse = {} /\ SpendUsage /\ PoolGet
  \/ \E o \in inUse : SpendCall /\ PoolRelease(o)

ReuseSpec == ReuseInit /\ [][ReuseNext]_vars

(***************************************************************************)
(* A style on its own, next to a LodManager: instances are constructed one *)
(* after the other, with and without the LodManager, initialised, updated  *)
(* MaxStyleFrames times with every audio frame, camera distance and clock  *)
(* advance, and disposed; memory-pressure events reach a style before its  *)
(* first update and after its disposal.                                    *)
(***************************************************************************)
StyleSpecInit ==
  /\ \E guess \in StyleDeviceGuesses : InitMon(guess)
  /\ InitPool(0, 0, 0, <<0, 0, 0, 0, 0>>)
  /\ NoStyle(1)
  /\ NoManager

StyleNext ==
  \/ /\ \/ \E lod \in {0, lodSerial} :
              /\ styleStage \in {"none", "disposed"}
              /\ styleId < MaxStyles
              /\ StyleConstruct(lod)
        \/ StyleInit
        \/ StyleSetLodManager
        \/ \E key \in CacheKeys :
              /\ styleFrameCount = 0
              /\ ShadersCreated < MaxShaderMaterials
              /\ CreateShaderMaterial(key)
        \/ \E key \in PoolKeys :
              styleFrameCount = 0 /\ materialCache # {} /\ GetObjectPool(key)
        \/ styleFrameCount = 0 /\ objectPools # {} /\ SceneAddStray
        \/ \E audio \in AudioFrames, camera \in CameraDistances, dt \in ClockAdvances,
               duration \in RippleDurations :
              /\ styleFrameCount < MaxStyleFrames
              /\ clockElapsed + dt <= MaxElapsed
              /\ audio.detected \/ duration = ShortestRipple
              /\ StyleUpdate(audio, camera, dt, duration)
        \/ StyleDispose
     /\ UNCHANGED <<rendVars, poolVars, poolObsVars, appVars>>
  \/ /\ styleStage = "disposed" \/ (styleStage = "initialized" /\ styleFrameCount = 0)
     /\ MemoryPressureEvent
     /\ UNCHANGED appVars

StyleSpec == StyleSpecInit /\ [][StyleNext]_vars

(***************************************************************************)
(* A LodManager whose shouldUpdate() is called MaxCounter times, with      *)
(* setQualityLevel() calls and memory-pressure events in between.          *)
(***************************************************************************)
ShouldUpdateInit ==
  /\ \E guess \in DeviceGuesses : InitMon(guess)
  /\ InitPool(0, 0, 0, <<0, 0, 0, 0, 0>>)
  /\ NoStyle(1)
  /\ NoManager

ShouldUpdateNext ==
  \/ \E importance \in ImportanceArgs, distance \in DistanceArgs :
        /\ frameCounter < MaxCounter
        /\ LodShouldUpdate(importance, distance)
        /\ UNCHANGED <<rendVars, poolVars, poolObsVars, appVars>>
  \/ \E n \in LevelArgs : LodSetQualityLevel(n) /\ UNCHANGED appVars
  \/ MemoryPressureEvent /\ UNCHANGED appVars

ShouldUpdateSpec == ShouldUpdateInit /\ [][ShouldUpdateNext]_vars

(***************************************************************************)
(* A LodManager whose getParticleCount() is called at every level and with *)
(* both adaptive distances, with setQualityLevel() calls and               *)
(* memory-pressure events in between.                                      *)
(***************************************************************************)
BaseCounts == {0, 50, 1000, 2000}
ParticleImportances == {0, 50, 100}
ParticleDistances == {0, 40, 100, 400}

ParticleInit ==
  /\ \E guess \in DeviceGuesses : InitMon(guess)
  /\ InitPool(0, 0, 0, <<0, 0, 0, 0, 0>>)
  /\ NoStyle(1)
  /\ NoManager

ParticleNext ==
  \/ \E baseCount \in BaseCounts, importance \in ParticleImportances,
         distance \in ParticleDistances :
        /\ GetParticleCountCall(baseCount, importance, distance)
        /\ UNCHANGED <<rendVars, poolVars, poolObsVars, styleVars, vmVars, sectionVars,
                       postListeners, configVars>>
  \/ \E n \in LevelArgs : LodSetQualityLevel(n) /\ UNCHANGED appVars
  \/ MemoryPressureEvent /\ UNCHANGED appVars

ParticleSpec == ParticleInit /\ [][ParticleNext]_vars

(***************************************************************************)
(* A PerformanceMonitor with its LodManager, styles constructed and        *)
(* disposed one after the other and post-processing managers, over         *)
(* MaxPressureFrames frames that report memory pressure or none, with      *)
(* handleMemoryPressure() and the monitor's setQualityLevel() called in    *)
(* between.                                                                *)
(***************************************************************************)
MaxPressureFrames == 2
MaxPostManagers == 2

PressureInit ==
  /\ \E guess \in StyleDeviceGuesses : InitMon(guess)
  /\ InitPool(0, 0, 0, <<0, 0, 0, 0, 0>>)
  /\ NoStyle(1)
  /\ NoManager

PressureNext ==
  \/ /\ \/ /\ styleStage \in {"none", "disposed"}
              /\ styleId < MaxStyles
              /\ StyleConstruct(lodSerial)
           \/ StyleInit
           \/ StyleDispose
        /\ UNCHANGED <<rendVars, poolVars, poolObsVars, appVars>>
  \/ /\ postListeners < MaxPostManagers
     /\ PostConstruct
     /\ UNCHANGED <<rendVars, poolVars, poolObsVars, styleVars, vmVars, sectionVars,
                    particleQuery, configVars>>
  \/ BeginFrame(0) /\ UNCHANGED appVars
  \/ \E mem \in BOOLEAN :
        frameCount < MaxPressureFrames /\ EndFrame(0, mem) /\ UNCHANGED appVars
  \/ HandleMemoryPressure /\ UNCHANGED appVars
  \/ \E n \in LevelArgs : SetQualityLevel(n) /\ UNCHANGED appVars

PressureSpec == PressureInit /\ [][PressureNext]_vars

(***************************************************************************)
(* A PerformanceMonitor over its first MaxBudgetFrames frames, which stay  *)
(* inside the budget of 1000/60 ms, fill it, or overrun it by less and by  *)
(* more than a fifth.                                                      *)
(***************************************************************************)
MaxBudgetFrames == 3
BudgetDurations == {0, 10, 17, 20, 21, 30}

BudgetInit ==
  /\ \E guess \in DeviceGuesses : InitMon(guess)
  /\ InitPool(0, 0, 0, <<0, 0, 0, 0, 0>>)
  /\ NoStyle(1)
  /\ NoManager

BudgetNext ==
  \/ BeginFrame(0) /\ UNCHANGED appVars
  \/ \E d \in BudgetDurations, mem \in BOOLEAN :
        /\ frameCount < MaxBudgetFrames
        /\ EndFrame(d, mem)
        /\ UNCHANGED appVars

BudgetSpec == BudgetInit /\ [][BudgetNext]_vars

(***************************************************************************)
(* A PerformanceMonitor whose sections are begun and ended in every order, *)
(* until the clock reaches MaxSectionClock and a section has               *)
(* MaxSectionTimes durations.                                              *)
(***************************************************************************)
MaxSectionClock == 10
MaxSectionTimes == 3
SectionAdvances == {0, 5}

SectionInit ==
  /\ \E guess \in DeviceGuesses : InitMon(guess)
  /\ InitPool(0, 0, 0, <<0, 0, 0, 0, 0>>)
  /\ NoStyle(1)
  /\ NoManager

SectionNext ==
  \/ \E section \in Sections, d \in SectionAdvances :
        /\ now + d <= MaxSectionClock
        /\ BeginSection(section, d)
        /\ UNCHANGED <<rendIdleVars, poolVars, poolObsVars, styleVars, vmVars,
                       particleQuery, postListeners, configVars>>
  \/ \E section \in Sections, d \in SectionAdvances :
        /\ now + d <= MaxSectionClock
        /\ Len(sectionTimes[section]) < MaxSectionTimes
        /\ EndSection(section, d)
        /\ UNCHANGED <<rendIdleVars, poolVars, poolObsVars, styleVars, vmVars,
                       particleQuery, postListeners, configVars>>

SectionSpec == SectionInit /\ [][SectionNext]_vars

(***************************************************************************)
(* VisualizationManager.  A call of the manager runs as the sequence of    *)
(* the calls it makes, one step each; vmTodo holds the steps still to run  *)
(* and vmDone those that have returned.  Nothing else runs while a call is *)
(* under way: all of it happens on the one render-loop callback.  A style  *)
(* of any type is a BaseVisualization with the WaveformVisualizer's        *)
(* content.                                                                *)
(***************************************************************************)
MaxContexts == 1          \* setRenderingContext() calls

\* setVisualizationType: dispose the current style, construct, init
SwapStepsConstructFirst(hasStyle) ==
  <<"style.construct">> \o (IF hasStyle THEN <<"style.dispose">> ELSE <<>>) \o <<"style.init">>
SwapSteps(hasStyle) ==
  (IF hasStyle THEN <<"style.dispose">> ELSE <<>>) \o <<"style.construct", "style.init">>

\* update(): beginFrame, the style, post-processing, endFrame
UpdateStepsEndFirst(hasMonitor, hasStyle, hasPost) ==
  (IF hasMonitor THEN <<"beginFrame", "endFrame">> ELSE <<>>)
    \o (IF hasStyle THEN <<"style.update">> ELSE <<>>)
    \o (IF hasPost THEN <<"post.update">> ELSE <<>>)
UpdateStepsUnbracketed(hasMonitor, hasStyle, hasPost) ==
  (IF hasStyle THEN <<"style.update">> ELSE <<>>)
    \o (IF hasMonitor THEN <<"beginFrame">> ELSE <<>>)
    \o (IF hasPost THEN <<"post.update">> ELSE <<>>)
    \o (IF hasMonitor THEN <<"endFrame">> ELSE <<>>)
UpdateSteps(hasMonitor, hasStyle, hasPost) ==
  (IF hasMonitor THEN <<"beginFrame">> ELSE <<>>)
    \o (IF hasStyle THEN <<"style.update">> ELSE <<>>)
    \o (IF hasPost THEN <<"post.update">> ELSE <<>>)
    \o (IF hasMonitor THEN <<"endFrame">> ELSE <<>>)

\* render(): beginFrame, the render pass, endFrame
RenderSteps(hasMonitor, hasPass) ==
  (IF hasMonitor THEN <<"beginFrame">> ELSE <<>>)
    \o (IF hasPass THEN <<"render.pass">> ELSE <<>>)
    \o (IF hasMonitor THEN <<"endFrame">> ELSE <<>>)

\* dispose(): the style, post-processing, the monitor, then the LOD manager
DisposeSteps(hasStyle, hasPost, hasMonitor) ==
  (IF hasStyle THEN <<"style.dispose">> ELSE <<>>)
    \o (IF hasPost THEN <<"post.dispose">> ELSE <<>>)
    \o (IF hasMonitor THEN <<"monitor.dispose">> ELSE <<>>)
    \o <<"lod.drop">>

VmIdle == vmTodo = <<>>
NextStep(step) == vmTodo # <<>> /\ Head(vmTodo) = step
Advance ==
  /\ vmDone' = Append(vmDone, Head(vmTodo))
  /\ vmTodo' = Tail(vmTodo)

\* a call of the manager is entered
Enter(op, steps) ==
  /\ VmIdle
  /\ vmOp' = op
  /\ vmTodo' = steps
  /\ vmDone' = <<>>

\* new PerformanceMonitor(...) and new LodManager(...) on it
ConstructMonitor(guess) ==
  /\ now' = now
  /\ inFrame' = FALSE
  /\ frameStartTime' = 0
  /\ lastFrameTime' = 0
  /\ frameCount' = 0
  /\ fps' = 0
  /\ minFps' = Unsampled
  /\ maxFps' = 0
  /\ fpsHistory' = <<>>
  /\ frameTime' = 0
  /\ frameBudgetUsage' = 0
  /\ hasFrameDrops' = FALSE
  /\ isPerformanceCritical' = FALSE
  /\ isMemoryConstrained' = FALSE
  /\ gcTime' = <<0, 0>>
  /\ currentQualityLevel' = ClampQuality(Min(guess, NumLodLevels - 1))
  /\ targetQualityLevel' = ClampQuality(Min(guess, NumLodLevels - 1))
  /\ lastAdjustmentTime' = 0
  /\ lodLevel' = Min(guess, NumLodLevels - 1)
  /\ adaptiveDistance' = DefaultAdaptiveDistance
  /\ qualityCalls' = <<>>
  /\ lodCalls' = <<>>
  /\ rendererApplied' = <<>>
  /\ lastOp' = "init"
  /\ evaluated' = FALSE
  /\ ruleMatched' = "none"
  /\ gcMatched' = FALSE
  /\ evalTime' = -1
  /\ changeTime' = -1
  /\ NoDispatch
  /\ timingMarkers' = [section \in Sections |-> NoMarker]
  /\ sectionTimes' = [section \in Sections |-> <<>>]
  /\ sectionMetrics' = [section \in MetricSections |-> 0]
  /\ sectionBegun' = [section \in Sections |-> FALSE]
  /\ sectionWarned' = FALSE

(***************************************************************************)
(* setRenderingContext(renderer, camera): initPerformanceMonitoring and    *)
(* initPostProcessing.  The quality-change callback the LodManager's       *)
(* constructor triggers reaches handleQualityChange while the manager's    *)
(* lodManager field is still null.                                         *)
(***************************************************************************)
SetRenderingContext(guess) ==
  /\ Enter("setRenderingContext", <<>>)
  /\ vmMonitor = 0 /\ vmLodManager = 0      \* the first context of this manager
  /\ vmRenderer' = TRUE
  /\ ConstructMonitor(guess)
  /\ lodSerial' = lodSerial + 1
  /\ frameCounter' = 0
  /\ vmMonitor' = lodSerial + 1
  /\ vmLodManager' = lodSerial + 1
  /\ vmPostProcessing' = TRUE
  /\ PostConstruct
  /\ UNCHANGED <<particleQuery, configVars>>
  /\ UNCHANGED <<postEnabled, visualizationType, pendingType, activeType, currentVisualization,
                 levelAtBegin>>
  /\ UNCHANGED <<styleId, styleStage, styleLodManager, styleFrameCount, qualityScale, shaderComplexity,
                 uniforms, updateFrequency, isVisible, distanceToCamera, clockElapsed,
                 lastCleanupTime, sceneChildren, objects, materials, geometries,
                 textureCache, materialCache, geometryCache, objectPools, ripples,
                 rippleGroup, created, gpuDisposed, lastUpdate, listeners, handlerRuns,
                 lodReturned, liveStyles>>

(***************************************************************************)
(* setPerformanceProfile(profile): handleQualityChange with the current    *)
(* level, which hands the LodManager to the active style; its              *)
(* lodManager.setQualityLevel(current level) returns at once.              *)
(***************************************************************************)
SetPerformanceProfile ==
  /\ Enter("setPerformanceProfile", <<>>)
  /\ IF vmMonitor # 0 /\ vmLodManager # 0 /\ currentVisualization # 0
       THEN StyleSetLodManagerFields(vmLodManager)
       ELSE UNCHANGED <<styleLodManager, qualityScale, shaderComplexity, uniforms, updateFrequency>>
  /\ UNCHANGED <<vmRenderer, vmMonitor, vmLodManager, vmPostProcessing, postEnabled,
                 visualizationType, pendingType, activeType, currentVisualization, levelAtBegin>>
  /\ UNCHANGED <<styleId, styleStage, styleFrameCount, isVisible, distanceToCamera,
                 clockElapsed, lastCleanupTime, sceneChildren, objects, materials,
                 geometries, textureCache, materialCache, geometryCache, objectPools,
                 ripples, rippleGroup, created, gpuDisposed, lastUpdate, listeners,
                 handlerRuns, frameCounter, lodReturned, lodSerial, liveStyles>>

\* what the manager's fields keep over a step of a call
VmFieldsKept == UNCHANGED <<vmRenderer, vmMonitor, vmLodManager, vmPostProcessing,
                            postEnabled, visualizationType, pendingType, activeType,
                            currentVisualization, levelAtBegin>>

(***************************************************************************)
(* setVisualizationType(type); init() is the call with the default type.   *)
(***************************************************************************)
SetVisualizationType(type) ==
  /\ Enter("setVisualizationType",
           IF type = visualizationType /\ currentVisualization # 0
             THEN <<>> ELSE SwapSteps(currentVisualization # 0))
  /\ pendingType' = type
  /\ UNCHANGED <<vmRenderer, vmMonitor, vmLodManager, vmPostProcessing, postEnabled,
                 visualizationType, activeType, currentVisualization, levelAtBegin>>
  /\ UNCHANGED styleVars

(***************************************************************************)
(* setVisualizationOptions(options) with options.type = type: the field is *)
(* assigned first, so the setVisualizationType(this.visualizationType) it  *)
(* calls when a style is active meets its own skip test.                   *)
(***************************************************************************)
SetVisualizationOptions(type) ==
  /\ visualizationType' = type
  /\ Enter("setVisualizationOptions",
           IF currentVisualization = 0 \/ (type = visualizationType' /\ currentVisualization # 0)
             THEN <<>> ELSE SwapSteps(currentVisualization # 0))
  /\ pendingType' = IF currentVisualization # 0 THEN type ELSE pendingType
  /\ UNCHANGED <<vmRenderer, vmMonitor, vmLodManager, vmPostProcessing, postEnabled,
                 activeType, currentVisualization, levelAtBegin>>
  /\ UNCHANGED styleVars

\* setColorPalette(palette) and setIntensity(intensity) end in the same call
VmInit == SetVisualizationType(visualizationType)

VmStyleDispose ==
  /\ NextStep("style.dispose")
  /\ Advance
  /\ StyleDispose
  /\ currentVisualization' = 0
  /\ UNCHANGED <<vmOp, vmRenderer, vmMonitor, vmLodManager, vmPostProcessing, postEnabled,
                 visualizationType, pendingType, activeType, levelAtBegin>>

VmStyleConstruct ==
  /\ NextStep("style.construct")
  /\ Advance
  /\ StyleConstruct(0)
  /\ currentVisualization' = styleId + 1
  /\ activeType' = pendingType
  /\ UNCHANGED <<vmOp, vmRenderer, vmMonitor, vmLodManager, vmPostProcessing, postEnabled,
                 visualizationType, pendingType, levelAtBegin>>

VmStyleInit ==
  /\ NextStep("style.init")
  /\ Advance
  /\ StyleInit
  /\ visualizationType' = pendingType
  /\ UNCHANGED <<vmOp, vmRenderer, vmMonitor, vmLodManager, vmPostProcessing, postEnabled,
                 pendingType, activeType, currentVisualization, levelAtBegin>>

(***************************************************************************)
(* update(audioData) and render()                                          *)
(***************************************************************************)
VmUpdate ==
  /\ Enter("update", UpdateSteps(vmMonitor # 0, currentVisualization # 0, vmPostProcessing))
  /\ VmFieldsKept
  /\ UNCHANGED styleVars

VmRender ==
  /\ Enter("render", RenderSteps(vmMonitor # 0, vmPostProcessing \/ vmRenderer))
  /\ VmFieldsKept
  /\ UNCHANGED styleVars

VmBeginFrame(d) ==
  /\ NextStep("beginFrame")
  /\ Advance
  /\ BeginFrame(d)
  /\ levelAtBegin' = lodLevel
  /\ UNCHANGED <<vmOp, vmRenderer, vmMonitor, vmLodManager, vmPostProcessing, postEnabled,
                 visualizationType, pendingType, activeType, currentVisualization>>

\* the camera handed to the style is the manager's, null before
\* setRenderingContext
VmStyleUpdate(audio, camera, dt, duration) ==
  /\ NextStep("style.update")
  /\ Advance
  /\ vmRenderer = (camera # -1)
  /\ StyleUpdate(audio, camera, dt, duration)
  /\ UNCHANGED vmOp
  /\ VmFieldsKept

\* postProcessing.setEnabled(lodManager.isPostProcessingEnabled()) and
\* postProcessing.update(audioData)
VmPostUpdate ==
  /\ NextStep("post.update")
  /\ Advance
  /\ postEnabled' = IF vmLodManager # 0 THEN PostProcessingEnabledOf(lodLevel)
                                        ELSE postEnabled
  /\ UNCHANGED <<vmOp, vmRenderer, vmMonitor, vmLodManager, vmPostProcessing,
                 visualizationType, pendingType, activeType, currentVisualization, levelAtBegin>>
  /\ UNCHANGED styleVars

VmRenderPass ==
  /\ NextStep("render.pass")
  /\ Advance
  /\ UNCHANGED vmOp
  /\ VmFieldsKept
  /\ UNCHANGED styleVars

VmEndFrame(d, mem) ==
  /\ NextStep("endFrame")
  /\ Advance
  /\ EndFrame(d, mem)
  /\ UNCHANGED vmOp
  /\ VmFieldsKept

(***************************************************************************)
(* dispose()                                                               *)
(***************************************************************************)
VmDispose ==
  /\ Enter("dispose", DisposeSteps(currentVisualization # 0, vmPostProcessing, vmMonitor # 0))
  /\ VmFieldsKept
  /\ UNCHANGED styleVars

VmPostDispose ==
  /\ NextStep("post.dispose")
  /\ Advance
  /\ vmPostProcessing' = FALSE
  /\ UNCHANGED <<vmOp, vmRenderer, vmMonitor, vmLodManager, postEnabled,
                 visualizationType, pendingType, activeType, currentVisualization, levelAtBegin>>
  /\ UNCHANGED styleVars

VmMonitorDispose ==
  /\ NextStep("monitor.dispose")
  /\ Advance
  /\ vmMonitor' = 0
  /\ UNCHANGED <<vmOp, vmRenderer, vmLodManager, vmPostProcessing, postEnabled,
                 visualizationType, pendingType, activeType, currentVisualization, levelAtBegin>>
  /\ UNCHANGED styleVars

VmLodDrop ==
  /\ NextStep("lod.drop")
  /\ Advance
  /\ vmLodManager' = 0
  /\ UNCHANGED <<vmOp, vmRenderer, vmMonitor, vmPostProcessing, postEnabled,
                 visualizationType, pendingType, activeType, currentVisualization, levelAtBegin>>
  /\ UNCHANGED styleVars

(***************************************************************************)
(* handleLodChange(lod), the callback the manager hands to its LodManager, *)
(* and setPostProcessingConfig(config).                                    *)
(***************************************************************************)
\* postProcessingConfig after handleLodChange(lod) with post-processing set;
\* the setConfig() call of the else branch hands the manager a copy
HandleLodChange(cfg, level) ==
  IF level <= 1
    THEN [enabled |-> PostProcessingEnabledOf(level),
          bloomStrength |-> cfg.bloomStrength \div 2,
          bloomRadius |-> cfg.bloomRadius \div 2,
          chromaticAberration |-> FALSE]
    ELSE [cfg EXCEPT !.enabled = PostProcessingEnabledOf(level)]

\* the callbacks of a step reach handleLodChange, which writes through the
\* postProcessingConfig field into the object it refers to
VmLodChanged ==
  /\ LET cfg == IF vmPostProcessing /\ lodCalls' # <<>>
                  THEN HandleLodChange(postProcessingConfig, lodCalls'[1])
                  ELSE postProcessingConfig
     IN /\ postProcessingConfig' = cfg
        /\ defaultPostProcessingConfig' = IF configShared THEN cfg
                                                          ELSE defaultPostProcessingConfig
  /\ UNCHANGED <<configShared, requestedConfig, sectionVars, particleQuery, postListeners>>

\* the Partial<PostProcessingConfig> arguments explored
PartialNames == {"none", "bloom", "chromatic"}
PartialOf(name) ==
  CASE name = "bloom" -> [bloomStrength |-> 100 * ConfigUnit]
    [] name = "chromatic" -> [chromaticAberration |-> TRUE]
    [] OTHER -> [f \in {} |-> 0]

\* { ...cfg, ...config } with the nested objects spread the same way
MergeConfig(cfg, part) ==
  [f \in DOMAIN cfg |-> IF f \in DOMAIN part THEN part[f] ELSE cfg[f]]

SetPostProcessingConfig(name) ==
  /\ VmIdle
  /\ postProcessingConfig' = MergeConfig(postProcessingConfig, PartialOf(name))
  /\ configShared' = FALSE
  /\ requestedConfig' = MergeConfig(requestedConfig, PartialOf(name))
  /\ lodCalls' = <<>>
  /\ lastOp' = "setPostProcessingConfig"
  /\ UNCHANGED <<monVars, lodVars, qualityCalls, rendererApplied, evaluated, ruleMatched,
                 gcMatched, evalTime, changeTime, pressureEvents, lodEvents, postRuns>>
  /\ UNCHANGED <<defaultPostProcessingConfig, sectionVars, particleQuery, postListeners>>
  /\ UNCHANGED <<vmVars, poolVars, poolObsVars, styleVars>>

\* the fixed-point bloom settings can be halved once more
CanHalve == postProcessingConfig.bloomStrength % 2 = 0 /\ postProcessingConfig.bloomRadius % 2 = 0

(***************************************************************************)
(* A manager whose LodManager changes level: the context is set, then      *)
(* setQualityLevel() calls and 'memory-pressure' events move the level and *)
(* setPostProcessingConfig() is called in between.                         *)
(***************************************************************************)
ConfigInit ==
  /\ InitMon(0)
  /\ InitPool(0, 0, 0, <<0, 0, 0, 0, 0>>)
  /\ NoStyle(0)
  /\ NoManager

ConfigNext ==
  \/ \E guess \in DeviceGuesses :
        /\ lodSerial < MaxContexts
        /\ SetRenderingContext(guess)
        /\ UNCHANGED <<poolVars, poolObsVars>>
  \/ \E n \in LevelArgs :
        /\ lodSerial > 0 /\ CanHalve
        /\ LodSetQualityLevel(n)
        /\ UNCHANGED vmVars
        /\ VmLodChanged
  \/ /\ lodSerial > 0 /\ CanHalve
     /\ MemoryPressureEvent
     /\ UNCHANGED vmVars
     /\ VmLodChanged
  \/ \E name \in PartialNames : SetPostProcessingConfig(name)

ConfigSpec == ConfigInit /\ [][ConfigNext]_vars


(***************************************************************************)
(* A VisualizationManager from its construction on.  Explored: on a device *)
(* guessed at LongRunGuess the context is set on the fresh manager and     *)
(* update() runs back to back over the warm-up of the quality policy, with *)
(* silent frames that take no time, and then update(), render() and       *)
(* setPerformanceProfile() are called with frames that take time and meet  *)
(* memory pressure; on another device every call is tried over ShortFrames *)
(* frames that take no time.                                               *)
(***************************************************************************)
LongRunGuess == 3
VizGuesses == {1, LongRunGuess}
ShortFrames == 2          \* frames explored on a device not guessed at LongRunGuess

Silence == [detected |-> FALSE, confidence |-> 0, volume |-> 50]
VizAudio == {Silence, [detected |-> TRUE, confidence |-> 90, volume |-> 50]}
VizCameras == {-1, 60, 100}
VizGaps == {0}
VizDurations == {0, AdjustmentPeriod}

LongRun == lodSerial > 0 /\ currentQualityLevel = LongRunGuess
VizQuiet == LongRun /\ frameCount < QuietFrames
VizCalm == ~LongRun \/ VizQuiet
FramesLeft ==
  IF vmMonitor # 0 THEN frameCount < (IF LongRun THEN MaxFrames ELSE ShortFrames)
                   ELSE styleFrameCount < MaxStyleFrames

VizInit ==
  /\ InitMon(0)
  /\ InitPool(0, 0, 0, <<0, 0, 0, 0, 0>>)
  /\ NoStyle(0)
  /\ NoManager

VizNext ==
  \/ \E guess \in VizGuesses :
        /\ lodSerial < MaxContexts
        /\ guess = LongRunGuess => vmOp = "constructor"
        /\ SetRenderingContext(guess)
        /\ UNCHANGED <<poolVars, poolObsVars>>
  \/ /\ \/ (~VizQuiet \/ frameCount = 0) /\ styleId < MaxStyles /\ VmInit
        \/ \E type \in VisualizationTypes :
              ~LongRun /\ styleId < MaxStyles /\ SetVisualizationType(type)
        \/ (~VizQuiet \/ frameCount = 0) /\ SetPerformanceProfile
        \/ FramesLeft /\ VmUpdate
        \/ ~VizQuiet /\ FramesLeft /\ VmRender
        \/ ~LongRun /\ VmDispose
     /\ UNCHANGED <<rendVars, poolVars, poolObsVars, classVars>>
  \/ \E d \in (IF VizCalm THEN {0} ELSE VizGaps) :
        now + d <= MaxTime /\ VmBeginFrame(d) /\ VmLodChanged
  \/ \E d \in (IF VizCalm THEN {0} ELSE VizDurations),
        mem \in (IF VizCalm THEN {FALSE} ELSE BOOLEAN) :
        now + d <= MaxTime /\ VmEndFrame(d, mem) /\ VmLodChanged
  \/ /\ \/ \E audio \in (IF VizQuiet THEN {Silence} ELSE VizAudio), camera \in VizCameras :
              VmStyleUpdate(audio, camera, 0, ShortestRipple)
        \/ VmPostUpdate
        \/ VmRenderPass
        \/ VmStyleDispose
        \/ VmStyleConstruct
        \/ VmStyleInit
        \/ VmPostDispose
        \/ VmMonitorDispose
        \/ VmLodDrop
     /\ UNCHANGED <<rendVars, poolVars, poolObsVars, classVars>>
  \/ /\ VmIdle /\ lodSerial > 0 /\ ~LongRun
     /\ MemoryPressureEvent
     /\ UNCHANGED vmVars
     /\ VmLodChanged

VizSpec == VizInit /\ [][VizNext]_vars

(***************************************************************************)
(* The manager's choice of style: init(), setVisualizationType() and       *)
(* setVisualizationOptions() in any order, before and after the rendering  *)
(* context is set, and dispose().                                          *)
(***************************************************************************)
TypeNext ==
  \/ \E guess \in VizGuesses :
        /\ lodSerial < MaxContexts
        /\ SetRenderingContext(guess)
        /\ UNCHANGED <<poolVars, poolObsVars>>
  \/ /\ \/ styleId < MaxStyles /\ VmInit
        \/ \E type \in VisualizationTypes :
              styleId < MaxStyles /\ SetVisualizationType(type)
        \/ \E type \in VisualizationTypes : SetVisualizationOptions(type)
        \/ VmDispose
        \/ VmStyleDispose
        \/ VmStyleConstruct
        \/ VmStyleInit
        \/ VmPostDispose
        \/ VmMonitorDispose
        \/ VmLodDrop
     /\ UNCHANGED <<rendVars, poolVars, poolObsVars, classVars>>

TypeSpec == VizInit /\ [][TypeNext]_vars

(***************************************************************************)
(* Properties of the performance monitor and the LOD manager.              *)
(***************************************************************************)
\* One of the decrease rules of the priority list matched in the evaluation
\* that produced this state.
DecreaseRuleMatched == ruleMatched \in {"memory", "critical", "budget", "belowTarget"}

\* C1: under every operation the monitor's current and target quality level
\* stay in [0, qualityLevels-1] and the LOD manager's level index stays in
\* [0, levels.length-1].
C1_LevelsInRange ==
  /\ currentQualityLevel \in 0 .. (QualityLevels - 1)
  /\ targetQualityLevel \in 0 .. (QualityLevels - 1)
  /\ lodLevel \in 0 .. (NumLodLevels - 1)

\* An evaluation whose decrease rule matched with the level already at 0.
C1_Witness ==
  /\ lastOp = "endFrame"
  /\ DecreaseRuleMatched
  /\ currentQualityLevel = 0
  /\ targetQualityLevel = 0
  /\ lodLevel \in {0, NumLodLevels - 1}

\* C2: every evaluation in which a decrease rule matches (and the GC rule
\* does not) lowers the target by one relative to the target before that
\* evaluation, floored at 0.
C2_DecreaseByOne ==
  [][(DecreaseRuleMatched' /\ ~gcMatched')
       => targetQualityLevel' = Max(0, targetQualityLevel - 1)]_vars

\* C3: an endFrame() invokes the quality-change callback exactly once, with
\* the new target, when it changes the target, and not at all otherwise.
C3_CallbackOncePerChange ==
  [][lastOp' = "endFrame"
       => IF targetQualityLevel' # targetQualityLevel
            THEN qualityCalls' = <<targetQualityLevel'>>
            ELSE qualityCalls' = <<>>]_vars

\* The policy changed the target and the callback received it.
C3_Witness ==
  /\ lastOp = "endFrame"
  /\ evaluated
  /\ changeTime = now
  /\ qualityCalls = <<targetQualityLevel>>

C5_TraceLowersTarget ==
  (frameCount = TraceFrames /\ currentQualityLevel > 0)
    => targetQualityLevel < currentQualityLevel

\* C6: LodManager.setQualityLevel(n) leaves the level at the clamped n and
\* fires the LOD-change callback at most once; when the clamped n is already
\* the level it changes nothing, applies no renderer settings and fires no
\* callback.
C6_LodSetIdempotent ==
  [][\A n \in LevelArgs :
       LodSetQualityLevel(n)
         => /\ lodLevel' = ClampLod(n)
            /\ Len(lodCalls') <= 1
            /\ ClampLod(n) = lodLevel
                 => /\ UNCHANGED <<monVars, lodVars>>
                    /\ rendererApplied' = <<>>
                    /\ lodCalls' = <<>>]_vars

\* setQualityLevel was called on the LOD manager with its current level.
C6_Witness ==
  /\ lastOp = "lodSetQualityLevel"
  /\ lodCalls = <<>>
  /\ rendererApplied = <<>>

(***************************************************************************)
(* Properties of the pool.                                                 *)
(***************************************************************************)
Managed == ObjectsOf(pool) \cup inUse

\* no object is free and in use at once, and none is twice in the free list
NoOverlap ==
  /\ ObjectsOf(pool) \cap inUse = {}
  /\ \A i, j \in 1 .. Len(pool) : pool[i] = pool[j] => i = j

\* the step is one of the calls that discard objects
DiscardingCall ==
  \/ \E k \in TrimSizes : PoolTrim(k)
  \/ PoolHandleMemoryPressure
  \/ PoolClear
  \/ /\ maxSize > 0 \/ resized' = "trim"
     /\ \/ \E o \in 0 .. creationCount : PoolRelease(o)
        \/ \E objs \in BatchesOf(0 .. creationCount, MaxBatch), d \in ClockSteps :
              PoolReleaseBatch(objs, d)

\* C7 as stated: an object in use, hence handed out, is after every call
\* in the free list or in the in-use set.
C7_ExactlyOne ==
  [][NoOverlap' /\ \A o \in inUse : o \in Managed']_vars

\* C7, amended: after every call no object is both in the free list and in
\* the in-use set and none is twice in the free list; an object leaves both
\* only by clear, trim, handleMemoryPressure, or by a release/releaseBatch
\* that discards at capacity or trims in its adaptive check.
C7_AtMostOne ==
  [][NoOverlap' /\ (Managed \ Managed' # {} => DiscardingCall)]_vars

\* a released object was discarded while others are free
C7_Witness ==
  /\ resetCalls # <<>>
  /\ resetCalls[1] \notin Managed
  /\ pool # <<>>

\* the pool looks the same to its caller and resetFn was not called
Untouched ==
  /\ PoolSize' = PoolSize
  /\ Available' = Available
  /\ InUseCount' = InUseCount
  /\ pool' = pool
  /\ resetCalls' = <<>>

\* C8: release(o) and releaseBatch(objs) of objects that are not in use
\* change neither size(), available() nor inUseCount(), do not call resetFn
\* and push nothing onto the free list.
C8_ForeignReleaseNoOp ==
  [][/\ \A o \in 0 .. creationCount : (o \notin inUse /\ PoolRelease(o)) => Untouched
     /\ \A objs \in BatchesOf(0 .. creationCount, MaxBatch), d \in ClockSteps :
          (objs # <<>> /\ ObjectsOf(objs) \cap inUse = {} /\ PoolReleaseBatch(objs, d))
            => Untouched]_vars

\* C9: get() on a pool with no object in use, followed at once by release
\* of the object it returned, leaves available() = size() and
\* inUseCount() = 0.
C9_GetReleaseRestores ==
  pairStage = "getRelease" => Available = PoolSize /\ InUseCount = 0

\* such a get()/release() pair has just run, on a pool at its capacity
C9_Witness ==
  /\ pairStage = "getRelease"
  /\ resetCalls = pairBatch
  /\ maxSize > 0
  /\ Len(pool) = maxSize

\* getBatch(n) on an empty pool calls createFn n times
BatchOnEmptyCreates ==
  pairStage' = "batch"
    => /\ creationCount' = creationCount + Len(pairBatch')
       /\ poolMisses' = poolMisses + Len(pairBatch')

\* the getBatch(n) after the releaseBatch of those n objects reuses them
BatchReused ==
  /\ creationCount' = creationCount
  /\ poolHits' = poolHits + Len(pairBatch)
  /\ poolMisses' = poolMisses
  /\ inUse' \ inUse = ObjectsOf(pairBatch)

ConfidentBeat(audio) == audio.detected /\ audio.confidence > BeatConfidenceAbove

\* C11 as stated: an update() whose frame carries a confident beat and whose
\* frequency gate returned false still invokes updateVisualization.
C11_BeatForcesUpdate ==
  (lastUpdate.called /\ ConfidentBeat(lastUpdate.audio) /\ ~lastUpdate.gate)
     => lastUpdate.ran

\* C11, amended: an update() of a visible style whose frame carries a
\* confident beat and whose frequency gate returned false still invokes
\* updateVisualization.
C11_BeatForcesVisibleUpdate ==
  (lastUpdate.called /\ ConfidentBeat(lastUpdate.audio) /\ ~lastUpdate.gate
     /\ isVisible) => lastUpdate.ran

\* the gate said no, and the update of a visible style ran all the same and
\* made the ripples of a beat of confidence 0.9
C11_Witness ==
  /\ lastUpdate.called
  /\ ~lastUpdate.gate
  /\ lastUpdate.ran
  /\ isVisible
  /\ styleLodManager # 0
  /\ ConfidentBeat(lastUpdate.audio)
  /\ Cardinality({r \in ripples : r.createTime = clockElapsed})
       = RippleCount(lastUpdate.audio.confidence)

\* C12: every update() leaves in the uniforms the beat flag, the volume and
\* the clock time of its frame, whether or not updateVisualization ran.
C12_UniformsEveryCall ==
  lastUpdate.called =>
    /\ uniforms.beat = (IF lastUpdate.audio.detected THEN 100 ELSE 0)
    /\ uniforms.volume = lastUpdate.audio.volume
    /\ uniforms.time = clockElapsed

\* an update of an invisible style skipped updateVisualization and still
\* stored a beat, a volume and a later time
C12_Witness ==
  /\ lastUpdate.called
  /\ ~lastUpdate.ran
  /\ ~isVisible
  /\ uniforms.beat = 100
  /\ uniforms.volume > 0
  /\ uniforms.time > 0

\* nothing is left in the scene, the tracked lists, the caches and the pool map
DisposedClean ==
  /\ sceneChildren = {}
  /\ objects = {}
  /\ materials = {}
  /\ geometries = {}
  /\ textureCache = {}
  /\ materialCache = {}
  /\ geometryCache = {}
  /\ objectPools = {}

\* C13: once dispose() has returned, the scene, the tracked lists, the
\* caches and the pool map are empty, and dispose() can be called again
\* (also without init() before it) and leaves them empty.
C13_DisposeLeavesNothing ==
  /\ styleStage = "disposed" => (DisposedClean /\ ENABLED StyleDispose)
  /\ styleStage = "constructed" => ENABLED StyleDispose

\* a style that had tracked objects, a cached material, a pool and a
\* foreign child in its scene has been disposed
C13_Witness ==
  /\ styleStage = "disposed"
  /\ DisposedClean
  /\ \E m \in gpuDisposed : m[2] = "shader"
  /\ InitMaterials \subseteq gpuDisposed

\* the instances that have been disposed
DisposedStyles == (1 .. styleId) \ liveStyles

\* C14: a memory-pressure broadcast does not invoke handleMemoryPressure of
\* an instance that has been disposed.
C14_DisposedNotInvoked ==
  [][MemoryPressureEvent => handlerRuns' \cap DisposedStyles = {}]_vars

\* C15: when dispose() has returned, every geometry and material the style
\* created since its construction has been disposed.
C15_AllCreatedDisposed ==
  styleStage = "disposed" => created \subseteq gpuDisposed

(***************************************************************************)
(* Properties of the VisualizationManager                                  *)
(***************************************************************************)
\* steps of the call under way that have returned, are still to run, and
\* the step a transition completes
Did(step) == \E i \in DOMAIN vmDone : vmDone[i] = step
Pending(step) == \E i \in DOMAIN vmTodo : vmTodo[i] = step
StepDone(step) == vmDone' = Append(vmDone, step)

\* C16: at most one style is alive at any time, and it is the manager's
\* current one; in dispose() the style is disposed before the monitor is
\* disposed and the LOD manager dropped, and when dispose() has returned the
\* manager holds no style, monitor or LOD manager.
C16_DependencyOrder ==
  /\ Cardinality(liveStyles) <= 1
  /\ currentVisualization # 0 => liveStyles = {currentVisualization}
  /\ (vmOp = "setVisualizationType" /\ (Did("style.construct") \/ Did("style.init")))
       => ~Pending("style.dispose")
  /\ (vmOp = "dispose" /\ (Did("monitor.dispose") \/ Did("lod.drop")))
       => (liveStyles = {} /\ currentVisualization = 0)
  /\ (vmOp = "dispose" /\ VmIdle)
       => /\ currentVisualization = 0
          /\ vmMonitor = 0
          /\ vmLodManager = 0
          /\ liveStyles = {}

\* a manager with a context whose style had been swapped was disposed
C16_Witness ==
  /\ vmOp = "dispose"
  /\ VmIdle
  /\ vmDone = <<"style.dispose", "post.dispose", "monitor.dispose", "lod.drop">>
  /\ styleId = 2
  /\ lodSerial > 0
  /\ styleStage = "disposed"

\* C17: whenever a rendering context has been set and a style is active,
\* the active style holds the manager's LodManager.
C17_StyleHoldsLodManager ==
  (VmIdle /\ vmRenderer /\ vmLodManager # 0 /\ currentVisualization # 0)
     => styleLodManager = vmLodManager

\* between beginFrame and endFrame the monitor is in a frame, the style and
\* post-processing steps of a call run inside, and endFrame ends the call
Bracketed ==
  /\ VmIdle => ~inFrame
  /\ (vmOp \in {"update", "render"} /\ vmMonitor # 0
        /\ (Did("style.update") \/ Did("post.update") \/ Did("render.pass")))
       => /\ Did("beginFrame")
          /\ (inFrame /\ Pending("endFrame")) \/ (Did("endFrame") /\ VmIdle)
  /\ Did("endFrame") => VmIdle

\* C18: in update() beginFrame precedes the style and post-processing
\* updates and endFrame follows them, in render() they bracket the render
\* pass, and beginFrame and endFrame alternate, beginFrame first.
C18_FramesBracketed ==
  /\ []Bracketed
  /\ [][/\ StepDone("beginFrame") => (~inFrame /\ inFrame')
        /\ StepDone("endFrame") => (inFrame /\ ~inFrame')]_vars

\* an update() with a monitor, a style and post-processing has returned
\* after a render()
C18_Witness ==
  /\ vmOp = "update"
  /\ VmIdle
  /\ vmDone = <<"beginFrame", "style.update", "post.update", "endFrame">>
  /\ frameCount >= 2
  /\ lastUpdate.called

\* C19: in an update() call the LOD level stays what it was at beginFrame
\* until the style update and the post-processing update have returned; a
\* step of the call that changes it is endFrame, the last one.
C19_NoRetroactiveChange ==
  /\ []((vmOp = "update" /\ Did("beginFrame")
           /\ (Pending("style.update") \/ Pending("post.update") \/ Pending("endFrame")))
          => lodLevel = levelAtBegin)
  /\ [][(vmOp = "update" /\ ~VmIdle /\ lodLevel' # lodLevel)
          => (StepDone("endFrame") /\ vmTodo' = <<>>)]_vars

\* the policy lowered the level in the endFrame of an update() whose style
\* update had run at the level of beginFrame
C19_Witness ==
  /\ vmOp = "update"
  /\ VmIdle
  /\ Did("style.update")
  /\ evaluated
  /\ lodLevel < levelAtBegin

(***************************************************************************)
(* Properties of LodManager.shouldUpdate                                   *)
(***************************************************************************)
\* C20: at a level whose updateFrequency is 3, a shouldUpdate() call with
\* importance 0.5 and distance 0 adds one to the frame counter and returns
\* true exactly when the counter is then a multiple of 3.
C20_EveryThirdCall ==
  [][(LodShouldUpdate(DefaultImportance, 0) /\ UpdateFrequencyOf(lodLevel) = 3) =>
       /\ frameCounter' = frameCounter + 1
       /\ lodReturned'.value = (frameCounter' % 3 = 0)]_vars

\* the 9th call, at updateFrequency 3 with the default arguments, returned true
C20_Witness ==
  /\ frameCounter = 9
  /\ UpdateFrequencyOf(lodLevel) = 3
  /\ lodReturned = [value |-> TRUE, importance |-> DefaultImportance, distance |-> 0]


(***************************************************************************)
(* Properties of getParticleCount, the frame budget and the sections.      *)
(***************************************************************************)
\* C21: getParticleCount(1000, 0.5, 0) returns exactly 1000 at the highest
\* level, and at every level, for every baseCount >= 0, importance in [0,1]
\* and distance >= 0, the result is at least max(10, floor(0.1 * baseCount)).
C21_ParticleCountFloor ==
  particleQuery.called =>
    /\ particleQuery.result >= Max(10, particleQuery.baseCount \div 10)
    /\ (/\ particleQuery.level = NumLodLevels - 1
        /\ particleQuery.baseCount = 1000
        /\ particleQuery.importance = DefaultImportance
        /\ particleQuery.distance = 0) => particleQuery.result = 1000

\* the default call at the highest level, after the level was lowered by a
\* memory-pressure event and raised again
C21_Witness ==
  /\ particleQuery.called
  /\ particleQuery.level = NumLodLevels - 1
  /\ particleQuery.adaptive = PressureAdaptiveDistance
  /\ particleQuery.baseCount = 1000
  /\ particleQuery.importance = DefaultImportance
  /\ particleQuery.distance = 0
  /\ particleQuery.result = 1000

\* C23: endSection(name) called with no beginSection(name) since the
\* previous endSection(name) leaves the section's rolling history and its
\* metric field unchanged.
C23_UnmatchedEndIsNoOp ==
  [][\A section \in Sections :
       (/\ ~sectionBegun[section]
        /\ \E d \in SectionAdvances : EndSection(section, d))
       => UNCHANGED <<sectionTimes, sectionMetrics>>]_vars


\* C22: after every beginFrame()/endFrame() pair with measured frame time t,
\* frameBudgetUsage is t / (1000/targetFps) clamped to [0,1] (here in
\* thousandths) and hasFrameDrops is t > 1.2 * 1000/targetFps; the usage is
\* in [0,1] in every reachable state.
C22_FrameBudget ==
  /\ frameBudgetUsage >= 0 /\ frameBudgetUsage <= 1000
  /\ frameCount > 0 =>
       /\ frameBudgetUsage = Max(0, Min(1000, frameTime * TargetFps))
       /\ hasFrameDrops = (10 * frameTime * TargetFps > 12 * 1000)

\* a frame of 21 ms: the usage is clamped and the frame counts as dropped
C22_Witness ==
  /\ lastOp = "endFrame"
  /\ frameTime = 21
  /\ frameBudgetUsage = 1000
  /\ hasFrameDrops


(***************************************************************************)
(* Properties of the memory-pressure notifications.                        *)
(***************************************************************************)
\* C24: on a memory-pressure notification the LodManager lowers its level
\* by exactly one when it is above 0, invoking the LOD-change callback once
\* with the new level, and leaves it at 0 otherwise; it sets the adaptive
\* distance to 30 and dispatches exactly one lod-memory-optimization
\* notification whose level is the resulting level.
C24_PressureLowersOneLevel ==
  [][MemoryPressureEvent =>
       /\ lodLevel' = (IF lodLevel > 0 THEN lodLevel - 1 ELSE 0)
       /\ lodCalls' = (IF lodLevel > 0 THEN <<lodLevel - 1>> ELSE <<>>)
       /\ adaptiveDistance' = 30
       /\ lodEvents' = <<lodLevel'>>]_vars

\* a notification that lowered the level to 2
C24_Witness ==
  /\ lastOp = "memoryPressure"
  /\ lodLevel = 2
  /\ lodCalls = <<2>>
  /\ lodEvents = <<2>>
  /\ adaptiveDistance = 30


\* C25: directly after Pool.handleMemoryPressure() the free list holds
\* min(available before, minSize) objects, and the in-use set, the hit and
\* miss counters and totalCreated are unchanged.
C25_PressureTrimsOnly ==
  [][PoolHandleMemoryPressure =>
       /\ Len(pool') = Min(Len(pool), minSize)
       /\ UNCHANGED <<inUse, poolHits, poolMisses, creationCount>>]_vars

\* a pool trimmed to its minSize of one free object while an object is in use
C25_Witness ==
  /\ resized = "pressure"
  /\ minSize = 1
  /\ Len(pool) = 1
  /\ creationCount > 2
  /\ inUse # {}


\* the listeners of the document all ran for one 'memory-pressure' event
DeliveredOnce ==
  /\ pressureEvents' = 1
  /\ Len(lodEvents') = 1
  /\ handlerRuns' = {f[1] : f \in listeners}
  /\ postRuns' = postListeners

\* C26 as stated: every call of PerformanceMonitor.handleMemoryPressure()
\* broadcasts a memory-pressure notification that every subscribed listener
\* receives once.
C26_AlwaysBroadcasts == [][HandleMemoryPressure => DeliveredOnce]_vars

\* C26: a call of handleMemoryPressure() on a monitor whose latest frame
\* found memory constrained dispatches one notification that the
\* LodManager, every registered style and every post-processing manager
\* receive once; on any other monitor it dispatches nothing and no
\* listener runs.
C26_BroadcastsWhenConstrained ==
  [][HandleMemoryPressure =>
       IF isMemoryConstrained
         THEN DeliveredOnce
         ELSE /\ pressureEvents' = 0 /\ lodEvents' = <<>> /\ postRuns' = 0
              /\ UNCHANGED <<lodVars, styleVars>>]_vars

\* a broadcast that reached the LodManager, a live style and a
\* post-processing manager
C26_Witness ==
  /\ lastOp = "handleMemoryPressure"
  /\ pressureEvents = 1
  /\ Len(lodEvents) = 1
  /\ styleStage = "initialized"
  /\ styleId \in handlerRuns
  /\ postRuns = 1


\* C27: once an operation has completed, metrics.currentQualityLevel is the
\* level the LodManager applies, whatever automatic adjustments, manual
\* PerformanceMonitor.setQualityLevel calls and memory-pressure events came
\* before.
C27_CurrentTracksApplied == ~inFrame => currentQualityLevel = lodLevel


\* C28: the automatic policy can raise quality from a monitor driven only
\* through beginFrame()/endFrame(): after FastFrames consistently fast
\* frames, which start below the maximum level and match no higher-priority
\* rule, an evaluation has raised the target above the initial level.
C28_FastFramesRaise ==
  (~inFrame /\ frameCount = FastFrames) => targetQualityLevel > currentQualityLevel


\* the level the priority-ordered rules leave the evaluation at, from the
\* level it started at
PriorityOutcome ==
  IF DecreaseRuleMatched THEN Max(0, currentQualityLevel - 1)
  ELSE IF ruleMatched = "increase" THEN Min(QualityLevels - 1, currentQualityLevel + 1)
  ELSE currentQualityLevel

C30_RunsIffVisibleAndDue ==
  lastUpdate.called =>
    (lastUpdate.ran <=>
       /\ isVisible
       /\ \/ lastUpdate.gate
          \/ ConfidentBeat(lastUpdate.audio)
          \/ lastUpdate.qualityChanged)

\* an update of a visible style that only the changed effect complexity
\* forced
C30_Witness ==
  /\ lastUpdate.called
  /\ isVisible
  /\ ~lastUpdate.gate
  /\ ~ConfidentBeat(lastUpdate.audio)
  /\ lastUpdate.qualityChanged
  /\ lastUpdate.ran


(***************************************************************************)
(* Properties of the style's quality tier and caches.                      *)
(***************************************************************************)
\* C31: in every state after construction, after setLodManager() and after
\* update(), shaderComplexity is 'low' iff qualityScale < 0.4, 'medium' iff
\* 0.4 <= qualityScale < 0.8 and 'high' otherwise.
C31_TierMatchesScale ==
  styleStage \in {"constructed", "initialized"} =>
    shaderComplexity = (IF qualityScale < 40 THEN "low"
                        ELSE IF qualityScale < 80 THEN "medium" ELSE "high")

\* the age in hundredths of a second beyond which the sweep calls an entry unused
UnusedAfter == 6000

\* C32: a sweep run by update() less than 60 s after the style's materials were
\* cached (they are cached before the first frame, at time 0) leaves every entry
\* of the material cache in place and undisposed.
C32_RecentMaterialSurvives ==
  [][(/\ styleStage = "initialized" /\ styleStage' = "initialized"
      /\ lastCleanupTime' # lastCleanupTime
      /\ clockElapsed' < UnusedAfter)
       => /\ materialCache \subseteq materialCache'
          /\ Cached(materialCache) \cap gpuDisposed' = {}]_vars

(* Properties of the pool's adaptive sizing and its cap. *)
\* C33: once an adaptive check has grown the pool and every createBatch run of
\* the prewarm it started is over, the free list holds exactly idealPoolSize
\* objects; after an adaptive trim it holds exactly idealPoolSize objects too.
C33_AdaptiveReachesIdeal ==
  /\ (resized = "grow" /\ timers = <<>>) => Available = IdealPoolSize(usageHistory, minSize)
  /\ resized = "trim" => Available = IdealPoolSize(usageHistory, minSize)

\* C35: a pool with maxSize > 0 never has more than maxSize free objects, after
\* construction, prewarm, release, releaseBatch and adaptive growth alike.
C35_CappedPoolWithinCap == maxSize > 0 => Available <= maxSize

\* C36: while one object is taken and given back over and over, createFn is
\* called for the first get() only and every get() hands out that object.
C36_SteadyStateReuse == creationCount <= 1 /\ inUse \subseteq {1}

\* C37: when clear(), trim(k) or handleMemoryPressure() returns, no createBatch
\* run of an earlier prewarm is left pending, so none adds objects afterwards.
C37_PrewarmEndsWithClear ==
  [][(PoolClear \/ PoolHandleMemoryPressure \/ \E k \in TrimSizes : PoolTrim(k))
       => timers' = <<>>]_vars

(* Properties of the manager's reaction to LOD changes. *)
\* the configuration a LOD change to level gives from the requested one
ConfigFor(level, requested) ==
  [enabled |-> PostProcessingEnabledOf(level),
   bloomStrength |-> IF level <= 1 THEN requested.bloomStrength \div 2
                                   ELSE requested.bloomStrength,
   bloomRadius |-> IF level <= 1 THEN requested.bloomRadius \div 2
                                 ELSE requested.bloomRadius,
   chromaticAberration |-> level > 1 /\ requested.chromaticAberration]

\* C34: after handleLodChange(lod) the post-processing configuration depends
\* only on lod.level and the configuration the user asked for, however many
\* LOD changes came before, and defaultPostProcessingConfig is never written.
C34_LodReactionHistoryFree ==
  /\ defaultPostProcessingConfig = DefaultConfig
  /\ (vmPostProcessing /\ lodCalls # <<>>)
       => postProcessingConfig = ConfigFor(lodLevel, requestedConfig)

\* C38: between the manager's calls, whenever a style is active the
\* visualizationType field is the type of that style.
C38_TypeIsActiveStyle ==
  (VmIdle /\ currentVisualization # 0) => visualizationType = activeType

\* C39: a 'memory-pressure' event that arrives once the manager has dropped
\* its LodManager changes neither that LodManager's level nor the renderer
\* settings and is followed by no 'lod-memory-optimization' event.
C39_DroppedLodManagerIsDeaf ==
  [][(MemoryPressureEvent /\ VmIdle /\ vmLodManager = 0)
       => /\ lodLevel' = lodLevel
          /\ rendererApplied' = <<>>
          /\ lodEvents' = <<>>]_vars

=============================================================================
